---- MODULE Spec2Model ----
(***************************************************************************)
(* A model of the Notion content layer of astro-notion-blog-multi-lang:    *)
(*   src/src/lib/notion/client.ts        cache, locks, retry, normalizer   *)
(*   src/src/components/NotionBlocks.astro   list grouping                 *)
(*                                                                         *)
(* Spec       the accessors (getAllPosts, getAllPostsOfAllLanguages,       *)
(*            getDatabase, getSiteMeta) called concurrently: the two lock  *)
(*            domains, the two caches, the retry wrapper, pagination.      *)
(* SpecPosts  fetchPostsAndMeta and getRankedPosts as functions of the    *)
(*            page objects the query returned.                             *)
(* SpecBlock  _buildBlock as a function of one block object.               *)
(* SpecGroup  the list grouping of NotionBlocks.astro as a function.       *)
(* SpecBlocks getAllBlocksByBlockId assembling the block tree of a page:   *)
(*            its activations, their remote calls and retries.             *)
(* SpecViews  the derived accessors (getPosts .. getAllTags) called one   *)
(*            after the other once the cache of every language is set.     *)
(* SpecDownload the asset downloads a post page awaits (downloadFile).      *)
(* SpecOutline the renderer's heading outline over a nested document.       *)
(* Two libraries are not part of the repository and are modelled by what   *)
(* they do: async-lock (one FIFO queue per key; a queue timer and an       *)
(* occupation timer reject the caller's promise without releasing the      *)
(* lock) and async-retry (bail(err) rejects the promise of the operation;  *)
(* an attempt that then throws is still handed to the retry scheduler).    *)
(***************************************************************************)
EXTENDS Integers, Sequences, FiniteSets, TLC

VARIABLES
    calls,              \* caller -> activation record of its accessor call
    queues,             \* asyncLock.queues: domain -> pending callers (FIFO)
    holder,             \* domain -> caller running under the lock, 0 if free
    postsCacheByLang,   \* language -> cache entry or Undefined
    dbCache,            \* Database or Null
    remoteRev,          \* revision of the remote content (edited by authors)
    zombies,            \* attempts made -> retry operations still running
                        \* after their promise was settled by bail
    bailedAttempts,     \* history: attempts started after a bail
    fetchCount,         \* history: key -> fetches started for that key
    fetchFail,          \* history: key -> fetches of that key that threw
    \* SpecPosts: fetchPostsAndMeta and getRankedPosts as functions
    queried,            \* results: the page objects the query returned
    postsAndMeta,       \* what fetchPostsAndMeta returns for them, or Pending
    askedSize,          \* pageSize of the last getRankedPosts call
    rankedPosts,        \* its result, or Pending
    \* SpecBlock: _buildBlock as a function
    rawBlock,           \* blockObject: a block object of a children listing
    builtBlock,         \* _buildBlock(blockObject), or Pending
    \* SpecGroup: the list grouping of NotionBlocks.astro as a function
    propsBlocks,        \* Astro.props.blocks (rawBlocks)
    groupedBlocks,      \* blocks: the grouped sequence, or Pending
    regroupedBlocks,    \* the grouping of groupedBlocks, or Pending
    \* SpecBlocks: the block assembler
    frames,             \* the activations of the assembler's async functions
    failures,           \* history: failed attempts of remote calls so far
    \* SpecViews: the derived accessors over a populated cache
    NUMBER_OF_POSTS_PER_PAGE,   \* the configured page size
    viewCall,           \* the last accessor call (op and arguments), or Null
    viewResult,         \* what it returned, Pending if it went to fetch
    \* SpecDownload: the asset downloads of one post page
    downloads,          \* per file-attached block: the state of its promise chain
    pageBuild,          \* the page's await Promise.all: pending, done, failed
    \* SpecOutline: the block renderer invoked over a document tree
    outlineDoc,         \* the top-level blocks of the document
    renders             \* the invocations of the renderer so far

mainVars == <<calls, queues, holder, postsCacheByLang, dbCache, remoteRev,
              zombies, bailedAttempts, fetchCount, fetchFail>>
postVars == <<queried, postsAndMeta, askedSize, rankedPosts>>
blockVars == <<rawBlock, builtBlock>>
groupVars == <<propsBlocks, groupedBlocks, regroupedBlocks>>
asmVars == <<frames, failures>>
viewVars == <<NUMBER_OF_POSTS_PER_PAGE, viewCall, viewResult>>
dlVars == <<downloads, pageBuild>>
olVars == <<outlineDoc, renders>>

\* The variables of the other specifications, which Spec leaves alone.
otherVars == <<postVars, blockVars, groupVars, asmVars, viewVars, dlVars, olVars>>

vars == <<mainVars, postVars, blockVars, groupVars, asmVars, viewVars, dlVars, olVars>>

\* ------------------------------------------------------------- bounds
NumCallers == 2
MaxEdits == 1
MaxPosts == 4
MaxRecords == 2
MaxBlocks == 4
ListPageSize == 1
MaxFailures == 3
MaxCount == 25
MaxPage == 4
MaxFiles == 2
MaxTop == 2
\* The activations of the assembler that are followed.
MaxFrames == 7

\* ------------------------------------------------- program constants
LANGUAGE_KEYS == <<"ja", "en">>
ASYNC_LOCK_POSTS == "posts"
ASYNC_LOCK_DB == "database"
maxPending == 100
numberOfRetry == 2
SLUG_META_TITLE == "meta-title"

Callers == 1..NumCallers
Languages == {LANGUAGE_KEYS[i] : i \in 1..Len(LANGUAGE_KEYS)}
Domains == {ASYNC_LOCK_POSTS, ASYNC_LOCK_DB}
CacheKeys == Languages \cup {ASYNC_LOCK_DB}

\* ------------------------------------------------------------ values
Null == [kind |-> "null"]
Undefined == [kind |-> "undefined"]
Ok(v) == [kind |-> "ok", val |-> v]
Fail(e) == [kind |-> "err", err |-> e]
Pending == [kind |-> "pending"]

RECURSIVE Join(_)
\* richTexts.map((richText) => richText.plain_text).join('')
Join(texts) ==
    IF texts = <<>> THEN "" ELSE Head(texts) \o Join(Tail(texts))

\* Array.prototype.slice(start, end) with 0 <= start, 0-based, end exclusive
Slice(s, start, end) ==
    LET e == IF end > Len(s) THEN Len(s) ELSE end
    IN  IF start >= e THEN <<>> ELSE SubSeq(s, start + 1, e)

\* ------------------------------------------------------ page objects
\* A number property: Null or Num(n).
Num(n) == [kind |-> "number", val |-> n]

\* JavaScript truthiness of the values the page properties hold: null and
\* undefined are falsy, a number is falsy when 0, every object is truthy.
Truthy(v) ==
    /\ v.kind \notin {"null", "undefined"}
    /\ (v.kind = "number" => v.val # 0)

\* responses.PageObject: the fields the client reads.
RawPage(id, title, slug, date, checkbox, rank, tags, excerpt) ==
    [id |-> id,
     properties |->
        [Page |-> [title |-> title],
         Slug |-> [rich_text |-> slug],
         Date |-> [date |-> date],
         Meta |-> [kind |-> "checkbox", checkbox |-> checkbox],
         Rank |-> [number |-> rank],
         Tags |-> [multi_select |-> tags],
         Excerpt |-> [rich_text |-> excerpt]]]

DateOf(start) == [kind |-> "date", start |-> start]

_validPageObject(pageObject) ==
    LET prop == pageObject.properties
    IN  /\ Len(prop.Page.title) > 0
        /\ Len(prop.Slug.rich_text) > 0
        /\ (Truthy(prop.Date.date) \/ Truthy(prop.Meta))

\* The Post of a page object (Icon, Cover and FeaturedImage, which no
\* accessor reads, are left out).
_buildPost(pageObject) ==
    LET prop == pageObject.properties
    IN  [PageId |-> pageObject.id,
         Title |-> Join(prop.Page.title),
         Slug |-> Join(prop.Slug.rich_text),
         Date |-> IF Truthy(prop.Date.date) THEN prop.Date.date.start ELSE "",
         Tags |-> prop.Tags.multi_select,
         Excerpt |-> IF Len(prop.Excerpt.rich_text) > 0
                     THEN Join(prop.Excerpt.rich_text) ELSE "",
         Rank |-> IF Truthy(prop.Rank.number) THEN prop.Rank.number.val ELSE 0,
         Meta |-> (prop.Meta.checkbox = TRUE)]

IsMeta(p) == p.Meta
\* A split that keeps every post.
IsAnyPost(p) == TRUE
IsPost(p) == ~p.Meta
IsTitleMeta(p) == p.Meta /\ p.Slug = SLUG_META_TITLE

\* fetchPostsAndMeta after its pagination loop: filter, map, split.
PostsAndMeta(results) ==
    LET valid == SelectSeq(results, _validPageObject)
        allPosts == [i \in 1..Len(valid) |-> _buildPost(valid[i])]
        metas == SelectSeq(allPosts, IsTitleMeta)
    IN  [kind |-> "entry",
         posts |-> SelectSeq(allPosts, IsPost),
         titleMeta |-> IF metas = <<>> THEN Undefined ELSE Head(metas)]

\* The comparator of getRankedPosts.
RankCompare(a, b) ==
    IF a.Rank > b.Rank THEN -1 ELSE IF a.Rank = b.Rank THEN 0 ELSE 1

RECURSIVE InsertByRank(_, _)
\* One step of a stable sort: x goes behind every element that does not
\* compare greater than it.
InsertByRank(sorted, x) ==
    IF sorted = <<>> THEN <<x>>
    ELSE IF RankCompare(Head(sorted), x) <= 0
         THEN <<Head(sorted)>> \o InsertByRank(Tail(sorted), x)
         ELSE <<x>> \o sorted

RECURSIVE SortByRank(_)
\* Array.prototype.sort with RankCompare (stable, ECMAScript 2019).
SortByRank(s) ==
    IF s = <<>> THEN <<>>
    ELSE InsertByRank(SortByRank(SubSeq(s, 1, Len(s) - 1)), s[Len(s)])

\* A filter that keeps the positive ranks only.
HasPositiveRank(post) == post.Rank > 0
HasRank(post) == post.Rank # 0

\* pageSize = 10
DefaultPageSize == 10

\* getRankedPosts over the full list getAllPosts returned.
RankedPosts(allPosts, pageSize) ==
    Slice(SortByRank(SelectSeq(allPosts, HasRank)), 0, pageSize)

\* --------------------------------------------------- remote content
\* The excerpt an author has written at revision rev of the content.
RevText(rev) == "r" \o ToString(rev)

Tag(name) == [name |-> name]

\* The pages of the database the query for lang (Published, Date not in
\* the future, Language contains lang, newest first) yields, page_size at a
\* time, at revision rev.
RemotePages(lang, rev) ==
    IF lang = "ja"
    THEN << << RawPage("j1", <<"Hello">>, <<"hello">>, DateOf("2024-02-01"),
                       FALSE, Num(5), <<Tag("x")>>, <<RevText(rev)>>),
               RawPage("jm", <<"Site">>, <<SLUG_META_TITLE>>, Null,
                       TRUE, Null, <<>>, <<RevText(rev)>>) >>,
            << RawPage("j2", <<"Bye">>, <<"bye">>, DateOf("2024-01-01"),
                       FALSE, Null, <<Tag("x")>>, <<RevText(rev)>>) >> >>
    ELSE << << RawPage("e1", <<"Hi">>, <<"hi">>, DateOf("2024-02-01"),
                       FALSE, Num(1), <<>>, <<RevText(rev)>>) >> >>

\* client.databases.query(params): one page of results; the cursor is the
\* number of the page to read, 0 when params has no start_cursor.
QueryResponse(lang, start_cursor, rev) ==
    LET pages == RemotePages(lang, rev)
        n == IF start_cursor = 0 THEN 1 ELSE start_cursor
    IN  [results |-> pages[n],
         has_more |-> n < Len(pages),
         next_cursor |-> IF n < Len(pages) THEN n + 1 ELSE 0]

\* client.databases.retrieve(params)
RetrieveDatabaseResponse(rev) ==
    [title |-> <<"My ", "Blog">>,
     description |-> <<"About ", RevText(rev)>>,
     icon |-> [type |-> "emoji", emoji |-> "E"],
     cover |-> [type |-> "external", external |-> [url |-> "cover.png"]]]

\* retrieveDatabaseCore after the call: the Database of a response.
BuildDatabase(res) ==
    LET icon ==
            IF res.icon = Null THEN Null
            ELSE IF res.icon.type = "emoji" /\ "emoji" \in DOMAIN res.icon
                 THEN [Type |-> res.icon.type, Emoji |-> res.icon.emoji]
            ELSE IF res.icon.type = "external" /\ "external" \in DOMAIN res.icon
                 THEN [Type |-> res.icon.type, Url |-> res.icon.external.url]
            ELSE IF res.icon.type = "file" /\ "file" \in DOMAIN res.icon
                 THEN [Type |-> res.icon.type, Url |-> res.icon.file.url]
            ELSE Null
        cover ==
            IF res.cover = Null THEN Null
            ELSE [Type |-> res.cover.type,
                  Url |-> IF res.cover.type = "external"
                          THEN res.cover.external.url
                          ELSE res.cover.file.url]
    IN  [Title |-> Join(res.title),
         Description |-> Join(res.description),
         Icon |-> icon,
         Cover |-> cover]

\* A site meta that is the database's own, whatever the meta post says.
SiteMetaOfDatabase(database, titleMeta) == database
\* getSiteMeta's result: titleMeta?.Title ?? database.Title, ...
SiteMeta(database, titleMeta) ==
    [database EXCEPT
        !.Title = IF titleMeta = Undefined THEN database.Title
                  ELSE titleMeta.Title,
        !.Description = IF titleMeta = Undefined THEN database.Description
                        ELSE titleMeta.Excerpt]

\* ------------------------------------------------------------ errors
APIResponseError(status) == [name |-> "APIResponseError", status |-> status]
RequestTimeoutError == [name |-> "RequestTimeoutError", status |-> 0]
LockTimedOut == [name |-> "async-lock timed out in queue", status |-> 0]
OccupationExceeded == [name |-> "Maximum occupation time is exceeded", status |-> 0]
TooManyPending == [name |-> "Too many pending tasks in queue", status |-> 0]

\* The failures an attempt of a remote call is let to end with.
RemoteErrors ==
    {APIResponseError(400), APIResponseError(499), APIResponseError(500),
     RequestTimeoutError}

\* error instanceof APIResponseError && error.status && error.status >= 400
\* && error.status < 500: the condition under which the handler calls bail.
IsClientError(error) ==
    /\ error.name = "APIResponseError"
    /\ error.status # 0
    /\ error.status >= 400
    /\ error.status < 500

\* A retry operation that has one more timeout.
RetryLeftOneMore(att) == att <= numberOfRetry + 1
\* node-retry's op.retry(err) after the attempt numbered att has failed:
\* a further attempt is scheduled while one of the `retries` timeouts is left.
RetryLeft(att) == att <= numberOfRetry

\* ----------------------------------------------------- accessor calls
GET_ALL_POSTS == "getAllPosts"
GET_ALL_LANGS == "getAllPostsOfAllLanguages"
GET_DATABASE == "getDatabase"
GET_SITE_META == "getSiteMeta"

\* The calls the pages issue.
Requests ==
    {[op |-> GET_ALL_POSTS, lang |-> l] : l \in Languages}
    \cup {[op |-> GET_SITE_META, lang |-> l] : l \in Languages}
    \cup {[op |-> GET_ALL_LANGS, lang |-> ""], [op |-> GET_DATABASE, lang |-> ""]}

\* The lock domain an accessor asks for first.
FirstDomain(op) ==
    IF op \in {GET_DATABASE, GET_SITE_META} THEN ASYNC_LOCK_DB
    ELSE ASYNC_LOCK_POSTS

\* A call not yet issued.  pc: idle, wait (in the queue of dom), fetch (under
\* the lock, an attempt of a remote call in flight), ret (under the lock, the
\* core has returned or thrown ret), cont (getSiteMeta between its two
\* acquisitions), done.  outcome: what the caller's promise settled with;
\* waited: whether the call has been in a queue (history).
IdleCall ==
    [pc |-> "idle", op |-> "", lang |-> "", dom |-> "", li |-> 0,
     results |-> <<>>, cursor |-> 0, att |-> 0, posts |-> <<>>,
     database |-> Null, ret |-> Pending, outcome |-> Pending,
     waited |-> FALSE]

\* The cache key a call under the lock reads and, on a miss, populates.
FetchKey(t) ==
    IF t.dom = ASYNC_LOCK_DB THEN ASYNC_LOCK_DB
    ELSE IF t.op = GET_ALL_LANGS THEN LANGUAGE_KEYS[t.li]
    ELSE t.lang

\* The core returns or throws r.
Return(t, r) ==
    [t EXCEPT !.pc = "ret", !.ret = r, !.li = 0, !.results = <<>>,
              !.cursor = 0, !.att = 0, !.posts = <<>>]

\* The first attempt of the first page of a fetch.
StartFetch(t) ==
    [t EXCEPT !.pc = "fetch", !.results = <<>>, !.cursor = 0, !.att = 1]

RECURSIVE AllLanguagesFrom(_, _, _, _)
\* getAllPostsOfAllLanguagesCore from the i-th language on, posts collected
\* so far: a cached language is appended, the first missing one is fetched.
AllLanguagesFrom(t, i, posts, cache) ==
    IF i > Len(LANGUAGE_KEYS) THEN Return(t, Ok(posts))
    ELSE IF cache[LANGUAGE_KEYS[i]] # Undefined
         THEN AllLanguagesFrom(t, i + 1,
                               posts \o cache[LANGUAGE_KEYS[i]].posts, cache)
         ELSE StartFetch([t EXCEPT !.li = i, !.posts = posts])

\* The cores without their cache lookup.
StartCoreAlwaysFetch(t, cache, db) ==
    IF t.op = GET_ALL_LANGS /\ t.dom = ASYNC_LOCK_POSTS
    THEN StartFetch([t EXCEPT !.li = 1])
    ELSE StartFetch(t)

\* exec(true): the function handed to asyncLock.acquire runs up to its first
\* await: retrieveDatabaseCore, getAllPostsCore, getTitleMetaCore or
\* getAllPostsOfAllLanguagesCore.
StartCore(t, cache, db) ==
    IF t.dom = ASYNC_LOCK_DB
    THEN IF db # Null THEN Return(t, Ok(db)) ELSE StartFetch(t)
    ELSE IF t.op = GET_ALL_LANGS THEN AllLanguagesFrom(t, 1, <<>>, cache)
    ELSE IF cache[t.lang] = Undefined THEN StartFetch(t)
    ELSE IF t.op = GET_SITE_META THEN Return(t, Ok(cache[t.lang].titleMeta))
    ELSE Return(t, Ok(cache[t.lang].posts))

\* The core after fetchPostsAndMeta returned entry and the cache was set.
AfterFetch(t, entry, cache) ==
    IF t.op = GET_ALL_LANGS
    THEN AllLanguagesFrom(t, t.li + 1, t.posts \o entry.posts, cache)
    ELSE IF t.op = GET_SITE_META THEN Return(t, Ok(entry.titleMeta))
    ELSE Return(t, Ok(entry.posts))

\* fetchCount after a step that left the call as t: a call that starts a
\* fetch counts one for its key.
CountFetch(count, t) ==
    IF t.pc = "fetch" THEN [count EXCEPT ![FetchKey(t)] = @ + 1] ELSE count

RECURSIVE DropSettled(_, _)
\* done(): the tasks at the head of the queue whose promise a timer has
\* already rejected are passed over (exec finds resolved set).
DropSettled(q, cs) ==
    IF q # <<>> /\ cs[Head(q)].outcome # Pending
    THEN DropSettled(Tail(q), cs)
    ELSE q

\* ------------------------------------------------------------ actions
\* The module as loaded: no call issued, both caches empty.
MainInit ==
    /\ calls = [c \in Callers |-> IdleCall]
    /\ queues = [d \in Domains |-> <<>>]
    /\ holder = [d \in Domains |-> 0]
    /\ postsCacheByLang = [l \in Languages |-> Undefined]
    /\ dbCache = Null
    /\ remoteRev = 0
    /\ zombies = [k \in 1..numberOfRetry |-> 0]
    /\ bailedAttempts = 0
    /\ fetchCount = [k \in CacheKeys |-> 0]
    /\ fetchFail = [k \in CacheKeys |-> 0]

\* No function of the other specifications applied.
PostsIdle ==
    /\ queried = <<>>
    /\ postsAndMeta = Pending
    /\ askedSize = 0
    /\ rankedPosts = Pending

BlockIdle == rawBlock = Null /\ builtBlock = Pending

GroupIdle ==
    propsBlocks = <<>> /\ groupedBlocks = Pending /\ regroupedBlocks = Pending

AssemblerIdle == frames = <<>> /\ failures = 0

ViewsIdle ==
    NUMBER_OF_POSTS_PER_PAGE = 1 /\ viewCall = Null /\ viewResult = Pending

DownloadIdle == downloads = <<>> /\ pageBuild = "pending"

OutlineIdle == outlineDoc = <<>> /\ renders = <<>>

Init == MainInit /\ PostsIdle /\ BlockIdle /\ GroupIdle /\ AssemblerIdle /\ ViewsIdle /\ DownloadIdle /\ OutlineIdle

\* An acquire that runs the core at once, whoever holds the domain.
AcquireNoWait(c, t) ==
    LET n == StartCore(t, postsCacheByLang, dbCache)
    IN  /\ holder' = [holder EXCEPT ![t.dom] = c]
        /\ calls' = [calls EXCEPT ![c] = n]
        /\ fetchCount' = CountFetch(fetchCount, n)
        /\ UNCHANGED <<queues, postsCacheByLang, dbCache, remoteRev, zombies,
                       bailedAttempts, fetchFail, otherVars>>

\* asyncLock.acquire(t.dom, core) by caller c, whose call is t: the core
\* starts at once when the domain is free; the call is refused when
\* maxPending tasks wait; otherwise it waits in the queue.
Acquire(c, t) ==
    LET d == t.dom
        n == StartCore(t, postsCacheByLang, dbCache)
    IN  /\ IF holder[d] = 0
           THEN /\ holder' = [holder EXCEPT ![d] = c]
                /\ calls' = [calls EXCEPT ![c] = n]
                /\ fetchCount' = CountFetch(fetchCount, n)
                /\ UNCHANGED queues
           ELSE IF Len(queues[d]) >= maxPending
           THEN /\ calls' = [calls EXCEPT ![c] =
                        [t EXCEPT !.pc = "done", !.outcome = Fail(TooManyPending)]]
                /\ UNCHANGED <<holder, queues, fetchCount>>
           ELSE /\ queues' = [queues EXCEPT ![d] = Append(@, c)]
                /\ calls' = [calls EXCEPT ![c] =
                        [t EXCEPT !.pc = "wait", !.waited = TRUE]]
                /\ UNCHANGED <<holder, fetchCount>>
        /\ UNCHANGED <<postsCacheByLang, dbCache, remoteRev, zombies,
                       bailedAttempts, fetchFail, otherVars>>

\* A page calls an accessor.
Call(c, r) ==
    /\ calls[c].pc = "idle"
    /\ Acquire(c, [IdleCall EXCEPT !.op = r.op, !.lang = r.lang,
                                   !.dom = FirstDomain(r.op)])

\* getSiteMeta, its database in hand, calls getTitleMeta(lang).
SiteMetaContinue(c) ==
    /\ calls[c].pc = "cont"
    /\ Acquire(c, [calls[c] EXCEPT !.dom = ASYNC_LOCK_POSTS])

\* A response handler that stores the entry of the pages read so far after
\* every page.
RemoteOkPartial(c) ==
    LET t == calls[c] IN
    /\ t.pc = "fetch"
    /\ IF t.dom = ASYNC_LOCK_DB
       THEN LET database == BuildDatabase(RetrieveDatabaseResponse(remoteRev))
            IN  /\ dbCache' = database
                /\ calls' = [calls EXCEPT ![c] = Return(t, Ok(database))]
                /\ UNCHANGED <<postsCacheByLang, fetchCount>>
       ELSE LET lang == FetchKey(t)
                res == QueryResponse(lang, t.cursor, remoteRev)
                results == t.results \o res.results
                entry == PostsAndMeta(results)
                cache == [postsCacheByLang EXCEPT ![lang] = entry]
                n == AfterFetch(t, entry, cache)
            IN  IF res.has_more
                THEN /\ calls' = [calls EXCEPT ![c] =
                            [t EXCEPT !.results = results,
                                      !.cursor = res.next_cursor, !.att = 1]]
                     /\ postsCacheByLang' = cache
                     /\ UNCHANGED <<dbCache, fetchCount>>
                ELSE /\ postsCacheByLang' = cache
                     /\ calls' = [calls EXCEPT ![c] = n]
                     /\ fetchCount' = CountFetch(fetchCount, n)
                     /\ UNCHANGED dbCache
    /\ UNCHANGED <<queues, holder, remoteRev, zombies, bailedAttempts, fetchFail,
                   otherVars>>

\* The attempt in flight of caller c's remote call returns its response.
RemoteOk(c) ==
    LET t == calls[c] IN
    /\ t.pc = "fetch"
    /\ IF t.dom = ASYNC_LOCK_DB
       THEN LET database == BuildDatabase(RetrieveDatabaseResponse(remoteRev))
            IN  /\ dbCache' = database
                /\ calls' = [calls EXCEPT ![c] = Return(t, Ok(database))]
                /\ UNCHANGED <<postsCacheByLang, fetchCount>>
       ELSE LET lang == FetchKey(t)
                res == QueryResponse(lang, t.cursor, remoteRev)
                results == t.results \o res.results
                entry == PostsAndMeta(results)
                cache == [postsCacheByLang EXCEPT ![lang] = entry]
                n == AfterFetch(t, entry, cache)
            IN  IF res.has_more
                THEN /\ calls' = [calls EXCEPT ![c] =
                            [t EXCEPT !.results = results,
                                      !.cursor = res.next_cursor, !.att = 1]]
                     /\ UNCHANGED <<postsCacheByLang, dbCache, fetchCount>>
                ELSE /\ postsCacheByLang' = cache
                     /\ calls' = [calls EXCEPT ![c] = n]
                     /\ fetchCount' = CountFetch(fetchCount, n)
                     /\ UNCHANGED dbCache
    /\ UNCHANGED <<queues, holder, remoteRev, zombies, bailedAttempts, fetchFail,
                   otherVars>>

\* A failure handler that leaves an empty entry in the cache of the key.
RemoteFailMemoized(c, error) ==
    LET t == calls[c] IN
    /\ t.pc = "fetch"
    /\ IF IsClientError(error)
       THEN /\ calls' = [calls EXCEPT ![c] = Return(t, Fail(error))]
            /\ fetchFail' = [fetchFail EXCEPT ![FetchKey(t)] = @ + 1]
            /\ zombies' = IF RetryLeft(t.att)
                          THEN [zombies EXCEPT ![t.att] = @ + 1]
                          ELSE zombies
       ELSE IF RetryLeft(t.att)
       THEN /\ calls' = [calls EXCEPT ![c] = [t EXCEPT !.att = @ + 1]]
            /\ UNCHANGED <<fetchFail, zombies>>
       ELSE /\ calls' = [calls EXCEPT ![c] = Return(t, Fail(error))]
            /\ fetchFail' = [fetchFail EXCEPT ![FetchKey(t)] = @ + 1]
            /\ UNCHANGED zombies
    /\ postsCacheByLang' =
          IF t.dom = ASYNC_LOCK_POSTS /\ (IsClientError(error) \/ ~RetryLeft(t.att))
          THEN [postsCacheByLang EXCEPT ![FetchKey(t)] = PostsAndMeta(<<>>)]
          ELSE postsCacheByLang
    /\ UNCHANGED <<queues, holder, dbCache, remoteRev,
                   bailedAttempts, fetchCount, otherVars>>

\* The attempt in flight of caller c's remote call fails with error.  A
\* client error: bail(error) rejects the operation's promise, so the core
\* throws; the handler then rethrows, and the wrapper schedules the next
\* attempt of the settled operation if a retry is left.  Another error: the
\* next attempt if a retry is left, else the operation rejects.
RemoteFail(c, error) ==
    LET t == calls[c] IN
    /\ t.pc = "fetch"
    /\ IF IsClientError(error)
       THEN /\ calls' = [calls EXCEPT ![c] = Return(t, Fail(error))]
            /\ fetchFail' = [fetchFail EXCEPT ![FetchKey(t)] = @ + 1]
            /\ zombies' = IF RetryLeft(t.att)
                          THEN [zombies EXCEPT ![t.att] = @ + 1]
                          ELSE zombies
       ELSE IF RetryLeft(t.att)
       THEN /\ calls' = [calls EXCEPT ![c] = [t EXCEPT !.att = @ + 1]]
            /\ UNCHANGED <<fetchFail, zombies>>
       ELSE /\ calls' = [calls EXCEPT ![c] = Return(t, Fail(error))]
            /\ fetchFail' = [fetchFail EXCEPT ![FetchKey(t)] = @ + 1]
            /\ UNCHANGED zombies
    /\ UNCHANGED <<queues, holder, postsCacheByLang, dbCache, remoteRev,
                   bailedAttempts, fetchCount, otherVars>>

\* An operation settled by bail after k attempts makes its next attempt; its
\* response is dropped (the promise is settled), its failure is retried
\* while a retry is left.
ZombieAttempt(k, ok) ==
    /\ zombies[k] > 0
    /\ zombies' = [j \in 1..numberOfRetry |->
                     IF j = k THEN zombies[j] - 1
                     ELSE IF j = k + 1 /\ ~ok /\ RetryLeft(k + 1)
                          THEN zombies[j] + 1
                     ELSE zombies[j]]
    /\ bailedAttempts' = bailedAttempts + 1
    /\ UNCHANGED <<calls, queues, holder, postsCacheByLang, dbCache,
                   remoteRev, fetchCount, fetchFail, otherVars>>

\* What the caller gets when the function it handed to acquire has ended
\* with t.ret: nothing if a timer has settled its promise; getSiteMeta goes
\* on after its database; every other call settles with t.ret.
Deliver(t) ==
    IF t.outcome # Pending THEN [t EXCEPT !.pc = "done", !.ret = Pending]
    ELSE IF t.op = GET_SITE_META /\ t.ret.kind = "ok"
    THEN IF t.dom = ASYNC_LOCK_DB
         THEN [t EXCEPT !.pc = "cont", !.database = t.ret.val, !.ret = Pending]
         ELSE [t EXCEPT !.pc = "done", !.ret = Pending, !.database = Null,
                        !.outcome = Ok(SiteMeta(t.database, t.ret.val))]
    ELSE [t EXCEPT !.pc = "done", !.ret = Pending, !.database = Null,
                   !.outcome = t.ret]

\* A done that settles the caller's promise and hands the lock to no one.
CompleteWithoutHandOver(c) ==
    /\ calls[c].pc = "ret"
    /\ calls' = [calls EXCEPT ![c] = Deliver(calls[c])]
    /\ UNCHANGED <<holder, queues, fetchCount, postsCacheByLang, dbCache,
                   remoteRev, zombies, bailedAttempts, fetchFail, otherVars>>

\* done(true, err, ret) of caller c: its promise settles, the lock passes to
\* the first waiting task whose promise is not settled, and that task's
\* function starts; with no such task the domain becomes free.
Complete(c) ==
    LET t == calls[c]
        d == t.dom
        live == DropSettled(queues[d], calls)
        passed == {queues[d][i] : i \in 1..(Len(queues[d]) - Len(live))}
        next == IF live = <<>> THEN 0 ELSE Head(live)
        n == IF next = 0 THEN t
             ELSE StartCore(calls[next], postsCacheByLang, dbCache)
    IN  /\ t.pc = "ret"
        /\ calls' = [x \in Callers |->
                        IF x = c THEN Deliver(t)
                        ELSE IF x \in passed THEN [calls[x] EXCEPT !.pc = "done"]
                        ELSE IF x = next THEN n
                        ELSE calls[x]]
        /\ holder' = [holder EXCEPT ![d] = next]
        /\ queues' = [queues EXCEPT ![d] = IF live = <<>> THEN <<>> ELSE Tail(live)]
        /\ fetchCount' = IF next = 0 THEN fetchCount ELSE CountFetch(fetchCount, n)
        /\ UNCHANGED <<postsCacheByLang, dbCache, remoteRev, zombies,
                       bailedAttempts, fetchFail, otherVars>>

\* The queue timer (timeout) of a waiting call fires: its promise rejects,
\* its task stays in the queue.
QueueTimeout(c) ==
    /\ calls[c].pc = "wait"
    /\ calls[c].outcome = Pending
    /\ calls' = [calls EXCEPT ![c].outcome = Fail(LockTimedOut)]
    /\ UNCHANGED <<queues, holder, postsCacheByLang, dbCache, remoteRev,
                   zombies, bailedAttempts, fetchCount, fetchFail, otherVars>>

\* The occupation timer (maxOccupationTime) of a call that awaits a remote
\* call under the lock fires: its promise rejects, its function runs on and
\* keeps the lock.
OccupationTimeout(c) ==
    /\ calls[c].pc = "fetch"
    /\ calls[c].outcome = Pending
    /\ calls' = [calls EXCEPT ![c].outcome = Fail(OccupationExceeded)]
    /\ UNCHANGED <<queues, holder, postsCacheByLang, dbCache, remoteRev,
                   zombies, bailedAttempts, fetchCount, fetchFail, otherVars>>

\* An author edits the content of the database.
RemoteEdit ==
    /\ remoteRev < MaxEdits
    /\ remoteRev' = remoteRev + 1
    /\ UNCHANGED <<calls, queues, holder, postsCacheByLang, dbCache, zombies,
                   bailedAttempts, fetchCount, fetchFail, otherVars>>

Next ==
    \/ \E c \in Callers, r \in Requests : Call(c, r)
    \/ \E c \in Callers : SiteMetaContinue(c)
    \/ \E c \in Callers : RemoteOk(c)
    \/ \E c \in Callers, error \in RemoteErrors : RemoteFail(c, error)
    \/ \E k \in 1..numberOfRetry, ok \in BOOLEAN : ZombieAttempt(k, ok)
    \/ \E c \in Callers : Complete(c)
    \/ \E c \in Callers : QueueTimeout(c)
    \/ \E c \in Callers : OccupationTimeout(c)
    \/ RemoteEdit

Spec == Init /\ [][Next]_vars

\* A step that the runtime takes by itself: a remote call returns or fails,
\* a function that has ended calls done, getSiteMeta goes on with its
\* database.
Progress ==
    \E c \in Callers :
        \/ Complete(c)
        \/ SiteMetaContinue(c)
        \/ \E error \in RemoteErrors : RemoteFail(c, error)
        \/ RemoteOk(c)

\* Every remote call returns or fails, and the event loop runs what is
\* ready.  Nothing obliges a page to call an accessor, a timer to fire or an
\* author to edit.
Fairness == WF_vars(Progress)

SpecLive == Init /\ [][Next]_vars /\ Fairness

\* ------------------------------------------------------------ claims
Settled(c) == calls[c].outcome.kind \in {"ok", "err"}
GotValue(c) == calls[c].pc = "done" /\ calls[c].outcome.kind = "ok"

\* C1: single flight.  For every cache key the fetches started exceed the
\* fetches that threw by at most one, so a fetch that succeeds is the only
\* one of its key; and every getAllPosts(lang) (getDatabase) call that has
\* received a value has received the one array (Database) the cache of its
\* key holds, the product of that one fetch.
C1_SingleFlight ==
    /\ \A k \in CacheKeys : fetchCount[k] <= fetchFail[k] + 1
    /\ \A c \in Callers :
        (GotValue(c) /\ calls[c].op = GET_ALL_POSTS) =>
            /\ postsCacheByLang[calls[c].lang] # Undefined
            /\ calls[c].outcome.val = postsCacheByLang[calls[c].lang].posts
            /\ fetchCount[calls[c].lang] = fetchFail[calls[c].lang] + 1
    /\ \A c \in Callers :
        (GotValue(c) /\ calls[c].op = GET_DATABASE) =>
            /\ calls[c].outcome.val = dbCache
            /\ fetchCount[ASYNC_LOCK_DB] = fetchFail[ASYNC_LOCK_DB] + 1

\* Two getAllPosts calls of one language, the second issued while the first
\* held the lock, have both received their posts; the content was edited
\* meanwhile and the language was fetched once, without failure.
C1_Witness ==
    \E c1, c2 \in Callers :
        /\ c1 # c2
        /\ GotValue(c1) /\ GotValue(c2)
        /\ calls[c1].op = GET_ALL_POSTS /\ calls[c2].op = GET_ALL_POSTS
        /\ calls[c1].lang = calls[c2].lang
        /\ ~calls[c1].waited /\ calls[c2].waited
        /\ calls[c1].outcome.val # <<>>
        /\ fetchCount[calls[c1].lang] = 1 /\ fetchFail[calls[c1].lang] = 0
        /\ remoteRev > 0

\* The populations in flight for a cache key.
Populating(k) ==
    {c \in Callers : calls[c].pc = "fetch" /\ FetchKey(calls[c]) = k}

\* C2: at most one population per cache key is in flight in every reachable
\* state, whatever accessors are called and however they interleave (the
\* lock's timers included).
C2_OnePopulationPerKey ==
    \A k \in CacheKeys : Cardinality(Populating(k)) <= 1

\* A population is in flight whose caller's promise the occupation timer
\* has already rejected, while another call of the same domain waits.
C2_Witness ==
    \E c1, c2 \in Callers :
        /\ calls[c1].pc = "fetch" /\ calls[c1].outcome.kind = "err"
        /\ calls[c2].pc = "wait" /\ calls[c2].dom = calls[c1].dom

\* C3: after an attempt has failed with a client error (status 400..499) the
\* call makes no further attempt.
C3_NoAttemptAfterClientError == bailedAttempts = 0

\* ------------------------------------------------ blocks: normalisation
\* responses.RichTextObject of type 'text'.
TextObject(content, link) ==
    [type |-> "text", plain_text |-> content, href |-> link,
     annotations |-> [bold |-> FALSE, italic |-> FALSE, strikethrough |-> FALSE,
                      underline |-> FALSE, code |-> FALSE, color |-> "default"],
     text |-> [content |-> content, link |-> link]]

\* responses.RichTextObject of type 'equation'.
EquationObject(expression) ==
    [type |-> "equation", plain_text |-> expression, href |-> Null,
     annotations |-> [bold |-> FALSE, italic |-> FALSE, strikethrough |-> FALSE,
                      underline |-> FALSE, code |-> FALSE, color |-> "default"],
     equation |-> [expression |-> expression]]

\* (no 'mention' object is among the rich texts drawn, so that branch is
\* left out)
_buildRichText(richTextObject) ==
    LET richText ==
            [Annotation |-> [Bold |-> richTextObject.annotations.bold,
                             Italic |-> richTextObject.annotations.italic,
                             Strikethrough |-> richTextObject.annotations.strikethrough,
                             Underline |-> richTextObject.annotations.underline,
                             Code |-> richTextObject.annotations.code,
                             Color |-> richTextObject.annotations.color],
             PlainText |-> richTextObject.plain_text,
             Href |-> richTextObject.href]
    IN  IF richTextObject.type = "text" /\ "text" \in DOMAIN richTextObject
        THEN IF richTextObject.text.link # Null
             THEN richText @@ [Text |-> [Content |-> richTextObject.text.content,
                                         Link |-> [Url |-> richTextObject.text.link.url]]]
             ELSE richText @@ [Text |-> [Content |-> richTextObject.text.content]]
        ELSE IF richTextObject.type = "equation" /\ "equation" \in DOMAIN richTextObject
        THEN richText @@ [Equation |-> [Expression |-> richTextObject.equation.expression]]
        ELSE richText

\* rich_text.map(_buildRichText)
BuildRichTexts(rich_text) ==
    [i \in 1..Len(rich_text) |-> _buildRichText(rich_text[i])]

\* const block = { Id, HasChildren } with no HasChildren copied.
BlockEnvelopeChildless(blockObject) ==
    [Id |-> blockObject.id, HasChildren |-> FALSE]
\* const block = { Id: blockObject.id, HasChildren: blockObject.has_children }
BlockEnvelope(blockObject) ==
    [Id |-> blockObject.id, HasChildren |-> blockObject.has_children]

\* The payload of a raw block: blockObject[blockObject.type].
PayloadOf(blockObject) == blockObject.payload

\* Heading1 / Heading2 / Heading3
BuildHeading(heading) ==
    [RichTexts |-> BuildRichTexts(heading.rich_text),
     Color |-> heading.color,
     IsToggleable |-> heading.is_toggleable]

\* RichTexts and Color, the payload of paragraph, list items, quote.
BuildText(text) ==
    [RichTexts |-> BuildRichTexts(text.rich_text), Color |-> text.color]

\* The video case: only the external source is copied.
BuildVideo(video) ==
    LET v == [Caption |-> BuildRichTexts(video.caption), Type |-> video.type]
    IN  IF video.type = "external" /\ "external" \in DOMAIN video
        THEN v @@ [External |-> [Url |-> video.external.url]]
        ELSE v

\* The image and file cases: external or hosted source.
BuildFile(file) ==
    LET f == [Caption |-> BuildRichTexts(file.caption), Type |-> file.type]
    IN  IF file.type = "external" /\ "external" \in DOMAIN file
        THEN f @@ [External |-> [Url |-> file.external.url]]
        ELSE IF file.type = "file" /\ "file" \in DOMAIN file
        THEN f @@ [File |-> [Type |-> file.type, Url |-> file.file.url,
                             ExpiryTime |-> file.file.expiry_time]]
        ELSE f

BuildCalloutIcon(icon) ==
    IF icon = Null THEN Null
    ELSE IF icon.type = "emoji" /\ "emoji" \in DOMAIN icon
    THEN [Type |-> icon.type, Emoji |-> icon.emoji]
    ELSE IF icon.type = "external" /\ "external" \in DOMAIN icon
    THEN [Type |-> icon.type, Url |-> icon.external.url]
    ELSE Null

BuildSyncedFrom(synced_block) ==
    IF synced_block.synced_from # Null /\ synced_block.synced_from.block_id # ""
    THEN [BlockId |-> synced_block.synced_from.block_id]
    ELSE Null

\* A link_to_page case that keeps the raw type when there is no page id.
BuildLinkToPageKeepingType(blockObject) ==
    LET link_to_page == PayloadOf(blockObject)
    IN  IF "page_id" \in DOMAIN link_to_page /\ link_to_page.page_id # ""
        THEN BlockEnvelope(blockObject) @@
                [Type |-> "link_to_page",
                 LinkToPage |-> [Type |-> link_to_page.type,
                                 PageId |-> link_to_page.page_id]]
        ELSE BlockEnvelope(blockObject) @@ [Type |-> blockObject.type]
\* case 'link_to_page'
BuildLinkToPage(blockObject) ==
    LET link_to_page == PayloadOf(blockObject)
    IN  IF "page_id" \in DOMAIN link_to_page /\ link_to_page.page_id # ""
        THEN BlockEnvelope(blockObject) @@
                [Type |-> "link_to_page",
                 LinkToPage |-> [Type |-> link_to_page.type,
                                 PageId |-> link_to_page.page_id]]
        ELSE BlockEnvelope(blockObject) @@ [Type |-> "unsupported"]

\* A default case that answers 'unsupported'.
BuildDefaultUnsupported(blockObject) ==
    BlockEnvelope(blockObject) @@ [Type |-> "unsupported"]
\* default: return { ...block, Type: blockObject.type }
BuildDefault(blockObject) ==
    BlockEnvelope(blockObject) @@ [Type |-> blockObject.type]

_buildBlock(blockObject) ==
    LET block == BlockEnvelope(blockObject)
        type == blockObject.type
        payload == PayloadOf(blockObject)
    IN  CASE type = "paragraph" ->
                block @@ [Type |-> "paragraph", Paragraph |-> BuildText(payload)]
          [] type = "heading_1" ->
                block @@ [Type |-> "heading_1", Heading1 |-> BuildHeading(payload)]
          [] type = "heading_2" ->
                block @@ [Type |-> "heading_2", Heading2 |-> BuildHeading(payload)]
          [] type = "heading_3" ->
                block @@ [Type |-> "heading_3", Heading3 |-> BuildHeading(payload)]
          [] type = "bulleted_list_item" ->
                block @@ [Type |-> "bulleted_list_item",
                          BulletedListItem |-> BuildText(payload)]
          [] type = "numbered_list_item" ->
                block @@ [Type |-> "numbered_list_item",
                          NumberedListItem |-> BuildText(payload)]
          [] type = "to_do" ->
                block @@ [Type |-> "to_do",
                          ToDo |-> [RichTexts |-> BuildRichTexts(payload.rich_text),
                                    Checked |-> payload.checked,
                                    Color |-> payload.color]]
          [] type = "video" ->
                block @@ [Type |-> "video", Video |-> BuildVideo(payload)]
          [] type = "image" ->
                block @@ [Type |-> "image", Image |-> BuildFile(payload)]
          [] type = "file" ->
                block @@ [Type |-> "file", File |-> BuildFile(payload)]
          [] type = "code" ->
                block @@ [Type |-> "code",
                          Code |-> [Caption |-> BuildRichTexts(payload.caption),
                                    RichTexts |-> BuildRichTexts(payload.rich_text),
                                    Language |-> payload.language]]
          [] type = "quote" ->
                block @@ [Type |-> "quote", Quote |-> BuildText(payload)]
          [] type = "equation" ->
                block @@ [Type |-> "equation",
                          Equation |-> [Expression |-> payload.expression]]
          [] type = "callout" ->
                block @@ [Type |-> "callout",
                          Callout |-> [RichTexts |-> BuildRichTexts(payload.rich_text),
                                       Icon |-> BuildCalloutIcon(payload.icon),
                                       Color |-> payload.color]]
          [] type = "synced_block" ->
                block @@ [Type |-> "synced_block",
                          SyncedBlock |-> [SyncedFrom |-> BuildSyncedFrom(payload)]]
          [] type = "toggle" ->
                block @@ [Type |-> "toggle",
                          Toggle |-> [RichTexts |-> BuildRichTexts(payload.rich_text),
                                      Color |-> payload.color,
                                      Children |-> <<>>]]
          [] type = "embed" ->
                block @@ [Type |-> "embed", Embed |-> [Url |-> payload.url]]
          [] type = "bookmark" ->
                block @@ [Type |-> "bookmark", Bookmark |-> [Url |-> payload.url]]
          [] type = "link_preview" ->
                block @@ [Type |-> "link_preview", LinkPreview |-> [Url |-> payload.url]]
          [] type = "table" ->
                block @@ [Type |-> "table",
                          Table |-> [TableWidth |-> payload.table_width,
                                     HasColumnHeader |-> payload.has_column_header,
                                     HasRowHeader |-> payload.has_row_header,
                                     Rows |-> <<>>]]
          [] type = "column_list" ->
                block @@ [Type |-> "column_list", ColumnList |-> [Columns |-> <<>>]]
          [] type = "table_of_contents" ->
                block @@ [Type |-> "table_of_contents",
                          TableOfContents |-> [Color |-> payload.color]]
          [] type = "link_to_page" -> BuildLinkToPage(blockObject)
          [] OTHER -> BuildDefault(blockObject)

\* ---------------------------------------- SpecPosts: posts as functions
\* The Rank numbers of the page objects drawn: unset, 0, negative, positive.
RankValues == {Null, Num(0), Num(0 - 1), Num(3), Num(5)}

\* Dated, unflagged page objects with the given ranks, identified by position.
RankedPages(ranks) ==
    [i \in 1..Len(ranks) |->
        RawPage(i, <<"T">>, <<"s", ToString(i)>>, DateOf("2024-01-01"), FALSE,
                ranks[i], <<>>, <<>>)]

\* The shapes of a page object the validity rules tell apart.
PageShapes ==
    [title : {<<>>, <<"T">>},
     slug : {<<>>, <<"s">>, <<SLUG_META_TITLE>>},
     date : {Null, DateOf("2024-01-01")},
     checkbox : BOOLEAN]

ShapedPages(shapes) ==
    [i \in 1..Len(shapes) |->
        RawPage(i, shapes[i].title, shapes[i].slug, shapes[i].date,
                shapes[i].checkbox, Null, <<>>, <<"x">>)]

SeqsUpTo(S, n) == UNION {[1..k -> S] : k \in 0..n}

PostsInit ==
    /\ queried \in {RankedPages(r) : r \in SeqsUpTo(RankValues, MaxPosts)}
                   \cup {ShapedPages(sh) : sh \in SeqsUpTo(PageShapes, MaxRecords)}
    /\ postsAndMeta = Pending
    /\ askedSize = 0
    /\ rankedPosts = Pending

\* fetchPostsAndMeta once its pagination loop has collected `queried`.
FetchPostsAndMeta ==
    /\ postsAndMeta = Pending
    /\ postsAndMeta' = PostsAndMeta(queried)
    /\ UNCHANGED <<queried, askedSize, rankedPosts, mainVars, blockVars,
                   groupVars, asmVars, viewVars, dlVars, olVars>>

\* getRankedPosts(lang, n) over the posts getAllPosts returns.
GetRankedPosts(n) ==
    /\ postsAndMeta # Pending
    /\ rankedPosts = Pending
    /\ askedSize' = n
    /\ rankedPosts' = Ok(RankedPosts(postsAndMeta.posts, n))
    /\ UNCHANGED <<queried, postsAndMeta, mainVars, blockVars, groupVars, asmVars, viewVars, dlVars, olVars>>

PostsNext ==
    \/ FetchPostsAndMeta
    \/ \E n \in (0..(MaxPosts + 1)) \cup {DefaultPageSize} : GetRankedPosts(n)

InitPosts == MainInit /\ PostsInit /\ BlockIdle /\ GroupIdle /\ AssemblerIdle /\ ViewsIdle /\ DownloadIdle /\ OutlineIdle

SpecPosts == InitPosts /\ [][PostsNext]_vars

\* Position of post p in the list all (PageIds are distinct).
IndexOf(all, p) == CHOOSE i \in 1..Len(all) : all[i].PageId = p.PageId

\* p comes before q in the order "rank descending, ties in list order".
Before(all, p, q) ==
    \/ p.Rank > q.Rank
    \/ p.Rank = q.Rank /\ IndexOf(all, p) < IndexOf(all, q)

\* r is the first n, in that order, of the posts of all at the positions Q.
FirstRanked(all, r, n, Q) ==
    /\ Len(r) = IF n < Cardinality(Q) THEN n ELSE Cardinality(Q)
    /\ \A j \in 1..Len(r) : \E i \in Q : r[j] = all[i]
    /\ \A j, k \in 1..Len(r) : j < k => Before(all, r[j], r[k])
    /\ \A i \in Q : (\A j \in 1..Len(r) : r[j] # all[i]) =>
            \A j \in 1..Len(r) : Before(all, r[j], all[i])

\* C5 as stated: getRankedPosts returns exactly the posts of rank > 0, rank
\* descending, equal ranks in list order, cut to pageSize.
C5_PositiveRanksOnly ==
    rankedPosts # Pending =>
        FirstRanked(postsAndMeta.posts, rankedPosts.val, askedSize,
                    {i \in 1..Len(postsAndMeta.posts) : postsAndMeta.posts[i].Rank > 0})

\* C5 amended: getRankedPosts returns exactly the posts whose rank is not 0
\* (a negative rank is kept and sorts behind the positive ones), rank
\* descending, equal ranks in list order, cut to pageSize.
C5_NonZeroRanks ==
    rankedPosts # Pending =>
        FirstRanked(postsAndMeta.posts, rankedPosts.val, askedSize,
                    {i \in 1..Len(postsAndMeta.posts) : postsAndMeta.posts[i].Rank # 0})

\* Ranks [3, 5, 5, 0] have given [5, 5, 3], the second and third post first.
C5_Witness ==
    /\ rankedPosts # Pending
    /\ [i \in 1..Len(postsAndMeta.posts) |-> postsAndMeta.posts[i].Rank] = <<3, 5, 5, 0>>
    /\ [i \in 1..Len(rankedPosts.val) |-> rankedPosts.val[i].PageId] = <<2, 3, 1>>

\* A page object with a title, a slug, its Meta checkbox set and no date.
MetaNoDate(pageObject) ==
    /\ Len(pageObject.properties.Page.title) > 0
    /\ Len(pageObject.properties.Slug.rich_text) > 0
    /\ pageObject.properties.Meta.checkbox
    /\ pageObject.properties.Date.date = Null

InPosts(id) ==
    \E j \in 1..Len(postsAndMeta.posts) : postsAndMeta.posts[j].PageId = id

\* C6 as stated: such a page object is in the output of getAllPosts.
C6_MetaNoDateIncluded ==
    postsAndMeta # Pending =>
        \A i \in 1..Len(queried) :
            MetaNoDate(queried[i]) => InPosts(queried[i].id)

\* The page objects with a title, the meta-title slug and the checkbox set.
IsMetaTitlePage(pageObject) ==
    /\ Len(pageObject.properties.Page.title) > 0
    /\ Join(pageObject.properties.Slug.rich_text) = SLUG_META_TITLE
    /\ pageObject.properties.Meta.checkbox

\* C6 amended: such a page object passes the validity filter but is not in
\* the output of getAllPosts, which holds the posts without the meta flag
\* only; it is the titleMeta of the language when it is the first page
\* object with the meta-title slug.
C6_MetaNoDateOnlyTitleMeta ==
    postsAndMeta # Pending =>
        \A i \in 1..Len(queried) :
            MetaNoDate(queried[i]) =>
                /\ ~InPosts(queried[i].id)
                /\ (/\ IsMetaTitlePage(queried[i])
                    /\ \A k \in 1..(i - 1) : ~IsMetaTitlePage(queried[k]))
                    => /\ postsAndMeta.titleMeta # Undefined
                       /\ postsAndMeta.titleMeta.PageId = queried[i].id
                       /\ postsAndMeta.titleMeta.Date = ""

\* A dated post and an undated meta-title page object were fetched: the
\* first is the only post, the second the titleMeta.
C6_Witness ==
    /\ postsAndMeta # Pending
    /\ Len(queried) = 2
    /\ ~MetaNoDate(queried[1]) /\ InPosts(1)
    /\ MetaNoDate(queried[2]) /\ IsMetaTitlePage(queried[2])
    /\ postsAndMeta.titleMeta # Undefined

\* C7: every post of getAllPosts comes from a page object with a title, a
\* slug, and a date or the meta flag set.
C7_OnlyValidRetained ==
    postsAndMeta # Pending =>
        \A i \in 1..Len(queried) :
            InPosts(queried[i].id) =>
                /\ Len(queried[i].properties.Page.title) > 0
                /\ Len(queried[i].properties.Slug.rich_text) > 0
                /\ \/ queried[i].properties.Date.date # Null
                   \/ queried[i].properties.Meta.checkbox

\* ------------------------------------- SpecBlock: one block normalised
\* The block types _buildBlock has a case for.
KnownTypes ==
    {"paragraph", "heading_1", "heading_2", "heading_3", "bulleted_list_item",
     "numbered_list_item", "to_do", "video", "image", "file", "code", "quote",
     "equation", "callout", "synced_block", "toggle", "embed", "bookmark",
     "link_preview", "table", "column_list", "table_of_contents", "link_to_page"}

\* Block types of the API that _buildBlock has no case for.
OtherTypes == {"divider", "child_page", "breadcrumb", "pdf", "unsupported"}

RichTextInputs ==
    {<<>>, <<TextObject("a", Null)>>,
     <<TextObject("a", [url |-> "u"]), EquationObject("x")>>}

MediaInputs ==
    {[caption |-> <<>>, type |-> "external", external |-> [url |-> "u"]],
     [caption |-> <<TextObject("a", Null)>>, type |-> "file",
      file |-> [url |-> "f", expiry_time |-> "t"]]}

\* The payloads the API sends under the key of each type.
RawPayloads(type) ==
    CASE type \in {"paragraph", "bulleted_list_item", "numbered_list_item",
                   "quote", "toggle"} ->
            {[rich_text |-> rt, color |-> "default"] : rt \in RichTextInputs}
      [] type \in {"heading_1", "heading_2", "heading_3"} ->
            {[rich_text |-> <<TextObject("a", Null)>>, color |-> "default",
              is_toggleable |-> t] : t \in BOOLEAN}
      [] type = "to_do" ->
            {[rich_text |-> <<TextObject("a", Null)>>, color |-> "default",
              checked |-> c] : c \in BOOLEAN}
      [] type \in {"video", "image", "file"} -> MediaInputs
      [] type = "code" ->
            {[caption |-> <<>>, rich_text |-> <<TextObject("a", Null)>>,
              language |-> "c"]}
      [] type = "equation" -> {[expression |-> "x"]}
      [] type = "callout" ->
            {[rich_text |-> <<>>, color |-> "default", icon |-> i] :
                i \in {Null, [type |-> "emoji", emoji |-> "e"],
                       [type |-> "external", external |-> [url |-> "u"]],
                       [type |-> "file", file |-> [url |-> "f", expiry_time |-> "t"]]}}
      [] type = "synced_block" ->
            {[synced_from |-> Null], [synced_from |-> [block_id |-> "b2"]]}
      [] type \in {"embed", "bookmark", "link_preview"} -> {[url |-> "u"]}
      [] type = "table" ->
            {[table_width |-> 2, has_column_header |-> h, has_row_header |-> FALSE] :
                h \in BOOLEAN}
      [] type = "table_of_contents" -> {[color |-> "default"]}
      [] type = "link_to_page" ->
            {[type |-> "page_id", page_id |-> "p1"],
             [type |-> "database_id", database_id |-> "d1"]}
      [] OTHER -> {Null}

\* responses.BlockObject
RawBlock(id, type, has_children, payload) ==
    [id |-> id, type |-> type, has_children |-> has_children, payload |-> payload]

RawBlocks ==
    UNION {{RawBlock("b1", type, h, payload) :
                h \in BOOLEAN, payload \in RawPayloads(type)} :
           type \in KnownTypes \cup OtherTypes}

BlockInit ==
    /\ rawBlock \in RawBlocks
    /\ builtBlock = Pending

BuildBlock ==
    /\ builtBlock = Pending
    /\ builtBlock' = Ok(_buildBlock(rawBlock))
    /\ UNCHANGED <<rawBlock, mainVars, postVars, groupVars, asmVars, viewVars, dlVars, olVars>>

InitBlock == MainInit /\ PostsIdle /\ BlockInit /\ GroupIdle /\ AssemblerIdle /\ ViewsIdle /\ DownloadIdle /\ OutlineIdle

SpecBlock == InitBlock /\ [][BuildBlock]_vars

\* C8 as stated: a raw block of a type without a case is built into a
\* Block of Type 'unsupported' that carries only Id and HasChildren.
C8_UnknownIsUnsupported ==
    (builtBlock # Pending /\ rawBlock.type \notin KnownTypes) =>
        /\ builtBlock.val.Type = "unsupported"
        /\ DOMAIN builtBlock.val = {"Id", "HasChildren", "Type"}
        /\ builtBlock.val.Id = rawBlock.id
        /\ builtBlock.val.HasChildren = rawBlock.has_children

\* C8 amended: a raw block of a type without a case is built, without
\* raising, into a Block whose Type is the raw type itself and that carries
\* only Id and HasChildren.
C8_UnknownKeepsRawType ==
    (builtBlock # Pending /\ rawBlock.type \notin KnownTypes) =>
        /\ builtBlock.val.Type = rawBlock.type
        /\ DOMAIN builtBlock.val = {"Id", "HasChildren", "Type"}
        /\ builtBlock.val.Id = rawBlock.id
        /\ builtBlock.val.HasChildren = rawBlock.has_children

\* A divider with children was built into a Block of Type 'divider'.
C8_Witness ==
    /\ builtBlock # Pending
    /\ rawBlock.type = "divider" /\ rawBlock.has_children
    /\ builtBlock.val.Type = "divider"

\* C9 as stated: a raw block of a type with a case is built into a Block
\* with the raw type, id and has_children.
C9_KnownKeepsType ==
    (builtBlock # Pending /\ rawBlock.type \in KnownTypes) =>
        /\ builtBlock.val.Type = rawBlock.type
        /\ builtBlock.val.Id = rawBlock.id
        /\ builtBlock.val.HasChildren = rawBlock.has_children

\* C9 amended: a raw block of a type with a case is built into a Block with
\* the raw id and has_children, and with the raw type, except a link_to_page
\* without a page id, whose Type is 'unsupported'.
C9_KnownKeepsTypeButPagelessLink ==
    (builtBlock # Pending /\ rawBlock.type \in KnownTypes) =>
        /\ builtBlock.val.Type =
                IF rawBlock.type = "link_to_page"
                   /\ "page_id" \notin DOMAIN rawBlock.payload
                THEN "unsupported" ELSE rawBlock.type
        /\ builtBlock.val.Id = rawBlock.id
        /\ builtBlock.val.HasChildren = rawBlock.has_children

\* A toggle with children and a link to a page were built with their type.
C9_Witness ==
    /\ builtBlock # Pending
    /\ \/ rawBlock.type = "toggle" /\ rawBlock.has_children
       \/ rawBlock.type = "link_to_page" /\ "page_id" \in DOMAIN rawBlock.payload
    /\ builtBlock.val.Type = rawBlock.type
    /\ builtBlock.val.HasChildren = rawBlock.has_children

\* ------------------------------------ SpecGroup: the list-grouping pass
\* A step of the reduce that puts a block that is no list item in front.
GroupStepPrepend(arr, block, i) ==
    IF block.Type = "bulleted_list_item"
    THEN Append(arr, [Type |-> "bulleted_list", ListItems |-> <<block>>])
    ELSE IF block.Type = "numbered_list_item"
    THEN Append(arr, [Type |-> "numbered_list", ListItems |-> <<block>>])
    ELSE IF block.Type = "to_do"
    THEN Append(arr, [Type |-> "to_do_list", ListItems |-> <<block>>])
    ELSE <<block>> \o arr
\* A step of the reduce that starts a new list for every list item.
GroupStepNoMerge(arr, block, i) ==
    IF block.Type = "bulleted_list_item"
    THEN Append(arr, [Type |-> "bulleted_list", ListItems |-> <<block>>])
    ELSE IF block.Type = "numbered_list_item"
    THEN Append(arr, [Type |-> "numbered_list", ListItems |-> <<block>>])
    ELSE IF block.Type = "to_do"
    THEN Append(arr, [Type |-> "to_do_list", ListItems |-> <<block>>])
    ELSE Append(arr, block)
\* The callback of rawBlocks.reduce: arr is the accumulator, i the index of
\* block, counted from 0.
GroupStep(arr, block, i) ==
    LET prevList == IF i = 0 THEN Undefined ELSE arr[Len(arr)]
        push == [arr EXCEPT ![Len(arr)].ListItems = Append(@, block)]
    IN  IF block.Type = "bulleted_list_item"
        THEN IF prevList = Undefined \/ prevList.Type # "bulleted_list"
             THEN Append(arr, [Type |-> "bulleted_list", ListItems |-> <<block>>])
             ELSE push
        ELSE IF block.Type = "numbered_list_item"
        THEN IF prevList = Undefined \/ prevList.Type # "numbered_list"
             THEN Append(arr, [Type |-> "numbered_list", ListItems |-> <<block>>])
             ELSE push
        ELSE IF block.Type = "to_do"
        THEN IF prevList = Undefined \/ prevList.Type # "to_do_list"
             THEN Append(arr, [Type |-> "to_do_list", ListItems |-> <<block>>])
             ELSE push
        ELSE Append(arr, block)

RECURSIVE Reduce(_, _, _)
\* rawBlocks.reduce(..., []) from index i on.
Reduce(arr, rawBlocks, i) ==
    IF i = Len(rawBlocks) THEN arr
    ELSE Reduce(GroupStep(arr, rawBlocks[i + 1], i), rawBlocks, i + 1)

\* const blocks = rawBlocks.reduce(...)
GroupBlocks(rawBlocks) == Reduce(<<>>, rawBlocks, 0)

\* The block types the sequences given to the renderer are drawn from.
GroupTypes ==
    {"bulleted_list_item", "numbered_list_item", "to_do", "paragraph", "heading_1"}

\* Built blocks of the given types, identified by position.
BlocksOfTypes(types) ==
    [i \in 1..Len(types) |->
        _buildBlock(RawBlock(ToString(i), types[i], FALSE,
                             CHOOSE payload \in RawPayloads(types[i]) : TRUE))]

GroupInit ==
    /\ propsBlocks \in {BlocksOfTypes(t) : t \in SeqsUpTo(GroupTypes, MaxBlocks)}
    /\ groupedBlocks = Pending
    /\ regroupedBlocks = Pending

\* NotionBlocks.astro rendered with blocks = propsBlocks.
RenderBlocks ==
    /\ groupedBlocks = Pending
    /\ groupedBlocks' = Ok(GroupBlocks(propsBlocks))
    /\ UNCHANGED <<propsBlocks, regroupedBlocks, mainVars, postVars, blockVars,
                   asmVars, viewVars, dlVars, olVars>>

\* The grouping pass run over its own output.
RenderGrouped ==
    /\ groupedBlocks # Pending
    /\ regroupedBlocks = Pending
    /\ regroupedBlocks' = Ok(GroupBlocks(groupedBlocks.val))
    /\ UNCHANGED <<propsBlocks, groupedBlocks, mainVars, postVars, blockVars,
                   asmVars, viewVars, dlVars, olVars>>

GroupNext ==
    \/ RenderBlocks
    \/ RenderGrouped

InitGroup == MainInit /\ PostsIdle /\ BlockIdle /\ GroupInit /\ AssemblerIdle /\ ViewsIdle /\ DownloadIdle /\ OutlineIdle

SpecGroup == InitGroup /\ [][GroupNext]_vars

ListItemTypes == {"bulleted_list_item", "numbered_list_item", "to_do"}

\* The List type of a list-item type.
ListTypeOf(type) ==
    CASE type = "bulleted_list_item" -> "bulleted_list"
      [] type = "numbered_list_item" -> "numbered_list"
      [] type = "to_do" -> "to_do_list"

IsList(element) == "ListItems" \in DOMAIN element

RECURSIVE Flatten(_)
\* The blocks of a grouped sequence, the items of its lists spliced in.
Flatten(elements) ==
    IF elements = <<>> THEN <<>>
    ELSE (IF IsList(Head(elements)) THEN Head(elements).ListItems
          ELSE <<Head(elements)>>) \o Flatten(Tail(elements))

\* C10: the grouped sequence holds the blocks of the input in their order;
\* each List node holds a non-empty run of items of the one kind its type
\* names, no two neighbouring List nodes have the same type (the runs are
\* maximal), and every block that is not a list item is an element of its
\* own, unchanged.
C10_GroupsMaximalRuns ==
    groupedBlocks # Pending =>
        LET g == groupedBlocks.val
        IN  /\ Flatten(g) = propsBlocks
            /\ \A j \in 1..Len(g) :
                IF IsList(g[j])
                THEN /\ DOMAIN g[j] = {"Type", "ListItems"}
                     /\ Len(g[j].ListItems) > 0
                     /\ \A k \in 1..Len(g[j].ListItems) :
                            /\ g[j].ListItems[k].Type \in ListItemTypes
                            /\ ListTypeOf(g[j].ListItems[k].Type) = g[j].Type
                ELSE g[j].Type \notin ListItemTypes
            /\ \A j \in 1..(Len(g) - 1) :
                (IsList(g[j]) /\ IsList(g[j + 1])) => g[j].Type # g[j + 1].Type

\* [bulleted, bulleted, paragraph, numbered] was grouped into
\* [bulleted_list of 2, paragraph, numbered_list of 1].
C10_Witness ==
    /\ groupedBlocks # Pending
    /\ [i \in 1..Len(propsBlocks) |-> propsBlocks[i].Type] =
            <<"bulleted_list_item", "bulleted_list_item", "paragraph",
              "numbered_list_item">>
    /\ Len(groupedBlocks.val) = 3
    /\ groupedBlocks.val[1] =
            [Type |-> "bulleted_list", ListItems |-> SubSeq(propsBlocks, 1, 2)]
    /\ groupedBlocks.val[2] = propsBlocks[3]
    /\ groupedBlocks.val[3] =
            [Type |-> "numbered_list", ListItems |-> <<propsBlocks[4]>>]

\* C11: grouping the grouped sequence again gives the grouped sequence, and
\* grouping a sequence without list items gives that sequence.
C11_GroupingIdempotent ==
    /\ regroupedBlocks # Pending => regroupedBlocks.val = groupedBlocks.val
    /\ (/\ groupedBlocks # Pending
        /\ \A j \in 1..Len(propsBlocks) : propsBlocks[j].Type \notin ListItemTypes)
        => groupedBlocks.val = propsBlocks

\* A sequence with a list of two items between two other blocks was grouped
\* a second time.
C11_Witness ==
    /\ regroupedBlocks # Pending
    /\ Len(groupedBlocks.val) = 3
    /\ IsList(groupedBlocks.val[2])
    /\ Len(groupedBlocks.val[2].ListItems) = 2
    /\ ~IsList(groupedBlocks.val[1]) /\ ~IsList(groupedBlocks.val[3])


\* -------------------------------------- SpecBlocks: the block assembler
GET_ALL_BLOCKS == "getAllBlocksByBlockId"
GET_TABLE_ROWS == "_getTableRows"
GET_COLUMNS == "_getColumns"
GET_SYNCED_CHILDREN == "_getSyncedBlockChildren"
GET_BLOCK == "getBlock"

\* The functions that list the children of a block page by page.
ListingFunctions == {GET_ALL_BLOCKS, GET_TABLE_ROWS, GET_COLUMNS}

TextPayload == [rich_text |-> <<>>, color |-> "default"]

\* The remote content: the children of each block, in order.  pageA holds a
\* paragraph with a child and a table, pageB a column list of two columns,
\* pageC a synced block that refers to the block og, and a toggle, pageD an
\* original synced block oc whose only child sc is synced from oc itself.
RemoteChildren(id) ==
    CASE id = "pageA" ->
            <<RawBlock("p1", "paragraph", TRUE, TextPayload),
              RawBlock("t1", "table", TRUE,
                       [table_width |-> 1, has_column_header |-> FALSE,
                        has_row_header |-> FALSE])>>
      [] id = "p1" -> <<RawBlock("p1a", "paragraph", FALSE, TextPayload)>>
      [] id = "t1" ->
            <<RawBlock("r1", "table_row", FALSE,
                       [cells |-> << <<TextObject("a", Null)>> >>])>>
      [] id = "pageB" -> <<RawBlock("cl", "column_list", TRUE, Null)>>
      [] id = "cl" ->
            <<RawBlock("c1", "column", TRUE, Null),
              RawBlock("c2", "column", TRUE, Null)>>
      [] id = "c1" -> <<RawBlock("c1a", "bulleted_list_item", FALSE, TextPayload)>>
      [] id = "c2" -> <<RawBlock("c2a", "paragraph", FALSE, TextPayload)>>
      [] id = "pageC" ->
            <<RawBlock("sy", "synced_block", FALSE,
                       [synced_from |-> [block_id |-> "og"]]),
              RawBlock("tg", "toggle", FALSE, TextPayload)>>
      [] id = "og" -> <<RawBlock("oga", "paragraph", FALSE, TextPayload)>>
      [] id = "pageD" ->
            <<RawBlock("oc", "synced_block", TRUE, [synced_from |-> Null])>>
      [] id = "oc" ->
            <<RawBlock("sc", "synced_block", FALSE,
                       [synced_from |-> [block_id |-> "oc"]])>>
      [] OTHER -> <<>>

\* The pages whose blocks are assembled.
PageIds == {"pageA", "pageB", "pageC"}

\* The pages with a synced block that is synced from one of its ancestors.
CyclicPageIds == {"pageD"}

\* client.blocks.retrieve: the original synced block.
RemoteBlock(id) ==
    RawBlock(id, "synced_block", TRUE, [synced_from |-> Null])

\* client.blocks.children.list(params): one page of the listing; the cursor
\* is the number of children already listed.
ListResponse(block_id, start_cursor) ==
    LET all == RemoteChildren(block_id)
        last == IF start_cursor + ListPageSize < Len(all)
                THEN start_cursor + ListPageSize ELSE Len(all)
    IN  [results |-> SubSeq(all, start_cursor + 1, last),
         has_more |-> last < Len(all),
         next_cursor |-> last]

\* fs.existsSync(`tmp/${blockId}.json`): the blocks that have a snapshot
\* file, and what is read from it.
HasSnapshot(blockId) == blockId = "p1"
Snapshot(blockId) == RemoteChildren(blockId)

\* The rows _getTableRows returns for the listed block objects.
BuildTableRow(blockObject) ==
    LET tableRow == [Id |-> blockObject.id, Type |-> blockObject.type,
                     HasChildren |-> blockObject.has_children, Cells |-> <<>>]
    IN  IF blockObject.type = "table_row"
        THEN [tableRow EXCEPT !.Cells =
                [c \in 1..Len(blockObject.payload.cells) |->
                    [RichTexts |-> BuildRichTexts(blockObject.payload.cells[c])]]]
        ELSE tableRow

\* The column _getColumns builds from a listed block object and its children.
BuildColumn(blockObject, children) ==
    [Id |-> blockObject.id, Type |-> blockObject.type,
     HasChildren |-> blockObject.has_children, Children |-> children]

\* The function the expansion loop awaits for a block, "" if none.
Expansion(block) ==
    IF block.Type = "table" THEN GET_TABLE_ROWS
    ELSE IF block.Type = "column_list" THEN GET_COLUMNS
    ELSE IF block.Type \in {"bulleted_list_item", "numbered_list_item", "to_do"}
            /\ block.HasChildren
    THEN GET_ALL_BLOCKS
    ELSE IF block.Type = "synced_block" THEN GET_SYNCED_CHILDREN
    ELSE IF block.Type = "toggle" THEN GET_ALL_BLOCKS
    ELSE IF block.Type \in {"paragraph", "heading_1", "heading_2", "heading_3",
                            "quote", "callout"}
            /\ block.HasChildren
    THEN GET_ALL_BLOCKS
    ELSE ""

\* The payload of a built block and the field of it the loop assigns.
ChildrenSlot(type) ==
    CASE type = "table" -> <<"Table", "Rows">>
      [] type = "column_list" -> <<"ColumnList", "Columns">>
      [] type = "bulleted_list_item" -> <<"BulletedListItem", "Children">>
      [] type = "numbered_list_item" -> <<"NumberedListItem", "Children">>
      [] type = "to_do" -> <<"ToDo", "Children">>
      [] type = "synced_block" -> <<"SyncedBlock", "Children">>
      [] type = "toggle" -> <<"Toggle", "Children">>
      [] type = "paragraph" -> <<"Paragraph", "Children">>
      [] type = "heading_1" -> <<"Heading1", "Children">>
      [] type = "heading_2" -> <<"Heading2", "Children">>
      [] type = "heading_3" -> <<"Heading3", "Children">>
      [] type = "quote" -> <<"Quote", "Children">>
      [] type = "callout" -> <<"Callout", "Children">>

\* record[name] = val
SetField(record, name, val) == (name :> val) @@ record

\* block.X.Children = children (Rows, Columns for a table, a column list)
WithChildren(block, children) ==
    LET slot == ChildrenSlot(block.Type)
    IN  SetField(block, slot[1], SetField(block[slot[1]], slot[2], children))

\* An activation of one of the async functions.  pc: start, request (an
\* attempt of its remote call is out), listed (the pagination loop is over),
\* loop (the expansion loop, at index i), await (the activation `child`),
\* await_original (getBlock), await_all (Promise.all over the columns, the
\* activations from `child` on), done.  att numbers the attempt of the
\* current remote call, bg the attempt a bailed operation makes on; own
\* says that ret is the failure of its own remote call.
NewFrame(fn, blockId, block, parent) ==
    [fn |-> fn, blockId |-> blockId, block |-> block, parent |-> parent,
     pc |-> "start", results |-> <<>>, cursor |-> 0, att |-> 0, bg |-> 0,
     blocks |-> <<>>, i |-> 0, child |-> 0, ret |-> Pending, own |-> FALSE]

\* The activation f ends with result; a rejection also rejects at once the
\* Promise.all its caller awaits.
Settle(frs, f, result) ==
    LET p == frs[f].parent
        settled == [frs EXCEPT ![f].ret = result, ![f].pc = "done"]
    IN  IF result.kind = "err" /\ p # 0 /\ frs[p].pc = "await_all"
        THEN [settled EXCEPT ![p].ret = result, ![p].pc = "done"]
        ELSE settled

\* f awaits a new activation.
Await(frs, f, pc, callee) ==
    Append([frs EXCEPT ![f].pc = pc, ![f].child = Len(frs) + 1], callee)

\* A page calls getAllBlocksByBlockId(blockId).
CallGetAllBlocks(blockId) ==
    /\ frames = <<>>
    /\ frames' = <<NewFrame(GET_ALL_BLOCKS, blockId, Null, 0)>>
    /\ UNCHANGED <<failures, mainVars, postVars, blockVars, groupVars, viewVars, dlVars, olVars>>

\* The function runs up to its first await.
Enter(f) ==
    LET fr == frames[f] IN
    /\ fr.pc = "start"
    /\ Len(frames) < MaxFrames
    /\ frames' =
        IF fr.fn \in ListingFunctions
        THEN IF HasSnapshot(fr.blockId)
             THEN [frames EXCEPT ![f].results = Snapshot(fr.blockId),
                                 ![f].pc = "listed"]
             ELSE [frames EXCEPT ![f].pc = "request", ![f].att = 1]
        ELSE IF fr.fn = GET_BLOCK
        THEN [frames EXCEPT ![f].pc = "request", ![f].att = 1]
        ELSE IF fr.block.SyncedBlock.SyncedFrom # Null
                /\ fr.block.SyncedBlock.SyncedFrom.BlockId # ""
        THEN Await(frames, f, "await_original",
                   NewFrame(GET_BLOCK, fr.block.SyncedBlock.SyncedFrom.BlockId,
                            Null, f))
        ELSE Await(frames, f, "await",
                   NewFrame(GET_ALL_BLOCKS, fr.block.Id, Null, f))
    /\ UNCHANGED <<failures, mainVars, postVars, blockVars, groupVars, viewVars, dlVars, olVars>>

\* A listing loop that keeps the items of the last page only.
RespondLastPageOnly(f) ==
    LET fr == frames[f]
        res == ListResponse(fr.blockId, fr.cursor)
    IN
    /\ fr.pc = "request"
    /\ frames' =
        IF fr.fn = GET_BLOCK
        THEN Settle(frames, f, Ok(_buildBlock(RemoteBlock(fr.blockId))))
        ELSE IF res.has_more
        THEN [frames EXCEPT ![f].results = res.results,
                            ![f].cursor = res.next_cursor,
                            ![f].att = 1]
        ELSE [frames EXCEPT ![f].results = res.results,
                            ![f].pc = "listed"]
    /\ UNCHANGED <<failures, mainVars, postVars, blockVars, groupVars, viewVars, dlVars, olVars>>

\* The attempt of f's remote call is answered.
Respond(f) ==
    LET fr == frames[f]
        res == ListResponse(fr.blockId, fr.cursor)
    IN
    /\ fr.pc = "request"
    /\ frames' =
        IF fr.fn = GET_BLOCK
        THEN Settle(frames, f, Ok(_buildBlock(RemoteBlock(fr.blockId))))
        ELSE IF res.has_more
        THEN [frames EXCEPT ![f].results = fr.results \o res.results,
                            ![f].cursor = res.next_cursor,
                            ![f].att = 1]
        ELSE [frames EXCEPT ![f].results = fr.results \o res.results,
                            ![f].pc = "listed"]
    /\ UNCHANGED <<failures, mainVars, postVars, blockVars, groupVars, viewVars, dlVars, olVars>>

\* The attempt of f's remote call fails.  A client error: bail rejects the
\* call, the handler rethrows and the wrapper schedules the next attempt of
\* the settled operation.  Another error: the next attempt if a retry is
\* left, else the call rejects.
RespondError(f, error) ==
    LET fr == frames[f] IN
    /\ fr.pc = "request"
    /\ failures < MaxFailures
    /\ failures' = failures + 1
    /\ frames' =
        IF IsClientError(error)
        THEN Settle([frames EXCEPT ![f].own = TRUE,
                                   ![f].bg = IF RetryLeft(fr.att)
                                             THEN fr.att + 1 ELSE 0],
                    f, Fail(error))
        ELSE IF RetryLeft(fr.att)
        THEN [frames EXCEPT ![f].att = fr.att + 1]
        ELSE Settle([frames EXCEPT ![f].own = TRUE], f, Fail(error))
    /\ UNCHANGED <<mainVars, postVars, blockVars, groupVars, viewVars, dlVars, olVars>>

\* The operation f's bail has settled makes its next attempt.
BackgroundAttempt(f, ok) ==
    LET fr == frames[f] IN
    /\ fr.bg > 0
    /\ ok \/ failures < MaxFailures
    /\ failures' = IF ok THEN failures ELSE failures + 1
    /\ frames' = [frames EXCEPT ![f].bg = IF ~ok /\ RetryLeft(fr.bg)
                                          THEN fr.bg + 1 ELSE 0]
    /\ UNCHANGED <<mainVars, postVars, blockVars, groupVars, viewVars, dlVars, olVars>>

\* What each listing function does with the listed block objects.
Listed(f) ==
    LET fr == frames[f] IN
    /\ fr.pc = "listed"
    /\ Len(frames) < MaxFrames
    /\ frames' =
        IF fr.fn = GET_ALL_BLOCKS
        THEN [frames EXCEPT ![f].blocks =
                                [k \in 1..Len(fr.results) |-> _buildBlock(fr.results[k])],
                            ![f].i = 0,
                            ![f].pc = "loop"]
        ELSE IF fr.fn = GET_TABLE_ROWS
        THEN Settle(frames, f,
                    Ok([k \in 1..Len(fr.results) |-> BuildTableRow(fr.results[k])]))
        ELSE IF fr.results = <<>>
        THEN Settle(frames, f, Ok(<<>>))
        ELSE [frames EXCEPT ![f].pc = "await_all", ![f].child = Len(frames) + 1]
             \o [k \in 1..Len(fr.results) |->
                    NewFrame(GET_ALL_BLOCKS, fr.results[k].id, Null, f)]
    /\ UNCHANGED <<failures, mainVars, postVars, blockVars, groupVars, viewVars, dlVars, olVars>>

\* One turn of the expansion loop of getAllBlocksByBlockId.
LoopStep(f) ==
    LET fr == frames[f] IN
    /\ fr.pc = "loop"
    /\ Len(frames) < MaxFrames
    /\ frames' =
        IF fr.i = Len(fr.blocks)
        THEN Settle(frames, f, Ok(fr.blocks))
        ELSE LET block == fr.blocks[fr.i + 1]
                 callee == Expansion(block)
             IN  IF callee = ""
                 THEN [frames EXCEPT ![f].i = fr.i + 1]
                 ELSE Await(frames, f, "await",
                            NewFrame(callee, block.Id,
                                     IF callee = GET_SYNCED_CHILDREN
                                     THEN block ELSE Null,
                                     f))
    /\ UNCHANGED <<failures, mainVars, postVars, blockVars, groupVars, viewVars, dlVars, olVars>>

\* An await that lets the failure of getBlock through.
ChildReturnRaising(f) ==
    LET fr == frames[f]
        r == frames[fr.child].ret
    IN
    /\ fr.pc \in {"await", "await_original"}
    /\ Len(frames) < MaxFrames
    /\ r # Pending
    /\ frames' =
        IF fr.fn = GET_ALL_BLOCKS
        THEN IF r.kind = "ok"
             THEN [frames EXCEPT ![f].blocks[fr.i + 1] = WithChildren(@, r.val),
                                 ![f].i = fr.i + 1,
                                 ![f].pc = "loop"]
             ELSE Settle(frames, f, r)
        ELSE IF fr.pc = "await_original"
        THEN IF r.kind = "ok"
             THEN Await(frames, f, "await",
                        NewFrame(GET_ALL_BLOCKS, r.val.Id, Null, f))
             ELSE Settle(frames, f, r)
        ELSE Settle(frames, f, r)
    /\ UNCHANGED <<failures, mainVars, postVars, blockVars, groupVars, viewVars, dlVars, olVars>>
\* The activation f awaits has ended.
ChildReturn(f) ==
    LET fr == frames[f]
        r == frames[fr.child].ret
    IN
    /\ fr.pc \in {"await", "await_original"}
    /\ Len(frames) < MaxFrames
    /\ r # Pending
    /\ frames' =
        IF fr.fn = GET_ALL_BLOCKS
        THEN IF r.kind = "ok"
             THEN [frames EXCEPT ![f].blocks[fr.i + 1] = WithChildren(@, r.val),
                                 ![f].i = fr.i + 1,
                                 ![f].pc = "loop"]
             ELSE Settle(frames, f, r)
        ELSE IF fr.pc = "await_original"
        THEN IF r.kind = "ok"
             THEN Await(frames, f, "await",
                        NewFrame(GET_ALL_BLOCKS, r.val.Id, Null, f))
             ELSE Settle(frames, f, Ok(<<>>))
        ELSE Settle(frames, f, r)
    /\ UNCHANGED <<failures, mainVars, postVars, blockVars, groupVars, viewVars, dlVars, olVars>>

\* Promise.all of _getColumns resolves: every column has its children.
ColumnsReturn(f) ==
    LET fr == frames[f] IN
    /\ fr.pc = "await_all"
    /\ \A k \in 1..Len(fr.results) : frames[fr.child + k - 1].ret.kind = "ok"
    /\ frames' =
        Settle(frames, f,
               Ok([k \in 1..Len(fr.results) |->
                    BuildColumn(fr.results[k], frames[fr.child + k - 1].ret.val)]))
    /\ UNCHANGED <<failures, mainVars, postVars, blockVars, groupVars, viewVars, dlVars, olVars>>

BlocksNext ==
    \/ \E blockId \in PageIds : CallGetAllBlocks(blockId)
    \/ \E f \in 1..Len(frames) : Enter(f)
    \/ \E f \in 1..Len(frames) : Respond(f)
    \/ \E f \in 1..Len(frames), error \in RemoteErrors : RespondError(f, error)
    \/ \E f \in 1..Len(frames), ok \in BOOLEAN : BackgroundAttempt(f, ok)
    \/ \E f \in 1..Len(frames) : Listed(f)
    \/ \E f \in 1..Len(frames) : LoopStep(f)
    \/ \E f \in 1..Len(frames) : ChildReturn(f)
    \/ \E f \in 1..Len(frames) : ColumnsReturn(f)

InitBlocks == MainInit /\ PostsIdle /\ BlockIdle /\ GroupIdle /\ AssemblerIdle /\ ViewsIdle /\ DownloadIdle /\ OutlineIdle

SpecBlocks == InitBlocks /\ [][BlocksNext]_vars

\* The assembler over every document, those of CyclicPageIds included.
SyncedNext ==
    \/ \E blockId \in PageIds \cup CyclicPageIds : CallGetAllBlocks(blockId)
    \/ \E f \in 1..Len(frames) : Enter(f)
    \/ \E f \in 1..Len(frames) : Respond(f)
    \/ \E f \in 1..Len(frames), error \in RemoteErrors : RespondError(f, error)
    \/ \E f \in 1..Len(frames), ok \in BOOLEAN : BackgroundAttempt(f, ok)
    \/ \E f \in 1..Len(frames) : Listed(f)
    \/ \E f \in 1..Len(frames) : LoopStep(f)
    \/ \E f \in 1..Len(frames) : ChildReturn(f)
    \/ \E f \in 1..Len(frames) : ColumnsReturn(f)

InitSynced == MainInit /\ PostsIdle /\ BlockIdle /\ GroupIdle /\ AssemblerIdle /\ ViewsIdle /\ DownloadIdle /\ OutlineIdle

SpecSynced == InitSynced /\ [][SyncedNext]_vars

\* The remote call of the activation has failed numberOfRetry + 1 times.
Exhausted(fr) ==
    /\ fr.own
    /\ fr.ret.kind = "err"
    /\ ~IsClientError(fr.ret.err)

\* No remote call makes more than 3 attempts, and one that ends with a
\* failure that is not client-class has made 3.
RetriedToTheBudget ==
    \A f \in 1..Len(frames) :
        /\ frames[f].att <= numberOfRetry + 1
        /\ frames[f].bg <= numberOfRetry + 1
        /\ Exhausted(frames[f]) => frames[f].att = numberOfRetry + 1

\* C4 as stated: a remote call is retried up to 3 attempts and no further,
\* and when all 3 have failed the call of getAllBlocksByBlockId does not
\* return a result.
C4_ExhaustionFailsTheChain ==
    /\ RetriedToTheBudget
    /\ (frames # <<>> /\ frames[1].ret.kind = "ok") =>
            \A f \in 1..Len(frames) : ~Exhausted(frames[f])

\* C4 amended: a remote call is retried up to 3 attempts and no further,
\* and when all 3 have failed the call of getAllBlocksByBlockId does not
\* return a result, except when the call is getBlock's retrieval of the
\* original of a synced block: that failure is caught, the synced block gets
\* no children and the assembly goes on.
C4_ExhaustionFailsTheChainButGetBlock ==
    /\ RetriedToTheBudget
    /\ (frames # <<>> /\ frames[1].ret.kind = "ok") =>
            \A f \in 1..Len(frames) :
                Exhausted(frames[f]) => frames[f].fn = GET_BLOCK
    /\ \A f \in 1..Len(frames) :
            (frames[f].fn = GET_BLOCK /\ frames[f].ret.kind = "err") =>
                frames[frames[f].parent].ret \in {Pending, Ok(<<>>)}

\* A listing below the page has failed 3 times and the page's call has
\* failed with that error.
C4_Witness ==
    /\ frames # <<>>
    /\ \E f \in 2..Len(frames) :
        /\ Exhausted(frames[f])
        /\ frames[f].fn # GET_BLOCK
        /\ frames[f].att = numberOfRetry + 1
        /\ frames[1].ret = Fail(frames[f].ret.err)

\* The blocks built from the children listed under id, none of which is
\* expanded.
AssembledLeaves(id) ==
    [k \in 1..Len(RemoteChildren(id)) |-> _buildBlock(RemoteChildren(id)[k])]

\* The activations of getBlock that _getSyncedBlockChildren s awaits.
OriginalRetrievals(s) ==
    {c \in 1..Len(frames) : frames[c].parent = s /\ frames[c].fn = GET_BLOCK}

\* C12: _getSyncedBlockChildren of a block with a synced-from reference
\* retrieves and lists the referenced block, never the synced block itself,
\* and returns the referenced block's assembled children; when getBlock
\* fails it lists nothing and returns the empty list, and the error of
\* getBlock is never the error of the page's getAllBlocksByBlockId.
C12_SyncedChildrenOfOriginal ==
    /\ \A s \in 1..Len(frames) :
        (/\ frames[s].fn = GET_SYNCED_CHILDREN
         /\ frames[s].block.SyncedBlock.SyncedFrom # Null) =>
            LET ref == frames[s].block.SyncedBlock.SyncedFrom.BlockId
                failed == \E c \in OriginalRetrievals(s) : frames[c].ret.kind = "err"
            IN  /\ ref # frames[s].block.Id
                /\ \A c \in 1..Len(frames) :
                        frames[c].parent = s => frames[c].blockId = ref
                /\ failed =>
                        /\ frames[s].ret \in {Pending, Ok(<<>>)}
                        /\ \A c \in 1..Len(frames) :
                                frames[c].parent = s => frames[c].fn = GET_BLOCK
                /\ (frames[s].ret.kind = "ok" /\ ~failed) =>
                        frames[s].ret.val = AssembledLeaves(ref)
                /\ LET p == frames[frames[s].parent]
                   IN  p.ret.kind = "ok" =>
                        \A k \in 1..Len(p.ret.val) :
                            p.ret.val[k].Id = frames[s].block.Id =>
                                p.ret.val[k].SyncedBlock.Children =
                                    IF failed THEN <<>> ELSE AssembledLeaves(ref)
    /\ (frames # <<>> /\ frames[1].ret.kind = "err") =>
            \E f \in 1..Len(frames) :
                /\ frames[f].fn # GET_BLOCK
                /\ frames[f].own
                /\ frames[f].ret = frames[1].ret

\* The page with the synced block is assembled: the synced block sy holds
\* the child built from the listing of og.
C12_Witness ==
    /\ frames # <<>>
    /\ frames[1].ret.kind = "ok"
    /\ frames[1].ret.val[1].Id = "sy"
    /\ Len(frames[1].ret.val[1].SyncedBlock.Children) = 1
    /\ frames[1].ret.val[1].SyncedBlock.Children[1].Id = "oga"
    /\ \E c \in OriginalRetrievals(2) : frames[c].ret.kind = "ok"


\* ===================================================== SpecViews
\* The derived accessors.  Each awaits getAllPosts(lang) and computes its
\* answer from the list it got.
GET_POSTS == "getPosts"
GET_RANKED_POSTS == "getRankedPosts"
GET_POST_BY_SLUG == "getPostBySlug"
GET_POST_BY_PAGE_ID == "getPostByPageId"
GET_POSTS_BY_TAG == "getPostsByTag"
GET_POSTS_BY_PAGE == "getPostsByPage"
GET_POSTS_BY_TAG_AND_PAGE == "getPostsByTagAndPage"
GET_NUMBER_OF_PAGES == "getNumberOfPages"
GET_NUMBER_OF_PAGES_BY_TAG == "getNumberOfPagesByTag"
GET_ALL_TAGS == "getAllTags"

\* allPosts.slice(0, pageSize)
getPosts(allPosts, pageSize) == Slice(allPosts, 0, pageSize)

\* allPosts.find((post) => post.Slug === slug) || null
getPostBySlug(allPosts, slug) ==
    LET SameSlug(post) == post.Slug = slug
        found == SelectSeq(allPosts, SameSlug)
    IN  IF found = <<>> THEN Null ELSE Head(found)

\* allPosts.find((post) => post.PageId === pageId) || null
getPostByPageId(allPosts, pageId) ==
    LET SameId(post) == post.PageId = pageId
        found == SelectSeq(allPosts, SameId)
    IN  IF found = <<>> THEN Null ELSE Head(found)

\* allPosts.filter((post) => post.Tags.find((tag) => tag.name === tagName))
PostsWithTag(allPosts, tagName) ==
    LET Carries(post) ==
            \E k \in 1..Len(post.Tags) : post.Tags[k].name = tagName
    IN  SelectSeq(allPosts, Carries)

\* getPostsByTag past its early return.
getPostsByTag(allPosts, tagName, pageSize) ==
    Slice(PostsWithTag(allPosts, tagName), 0, pageSize)

\* A getPostsByPage whose pages start from 0.
getPostsByPageFromZero(allPosts, page) ==
    LET startIndex == page * NUMBER_OF_POSTS_PER_PAGE
        endIndex == startIndex + NUMBER_OF_POSTS_PER_PAGE
    IN  Slice(allPosts, startIndex, endIndex)

\* getPostsByPage past its early return.
getPostsByPage(allPosts, page) ==
    LET startIndex == (page - 1) * NUMBER_OF_POSTS_PER_PAGE
        endIndex == startIndex + NUMBER_OF_POSTS_PER_PAGE
    IN  Slice(allPosts, startIndex, endIndex)

\* A getPostsByTagAndPage whose pages start from 0.
getPostsByTagAndPageFromZero(allPosts, tagName, page) ==
    LET posts == PostsWithTag(allPosts, tagName)
        startIndex == page * NUMBER_OF_POSTS_PER_PAGE
        endIndex == startIndex + NUMBER_OF_POSTS_PER_PAGE
    IN  Slice(posts, startIndex, endIndex)

\* getPostsByTagAndPage past its early return.
getPostsByTagAndPage(allPosts, tagName, page) ==
    LET posts == PostsWithTag(allPosts, tagName)
        startIndex == (page - 1) * NUMBER_OF_POSTS_PER_PAGE
        endIndex == startIndex + NUMBER_OF_POSTS_PER_PAGE
    IN  Slice(posts, startIndex, endIndex)

\* A page count that leaves the last, partly filled page out.
getNumberOfPagesFloor(allPosts) ==
    Len(allPosts) \div NUMBER_OF_POSTS_PER_PAGE
\* Math.floor(length / N) + (length % N > 0 ? 1 : 0)
getNumberOfPages(allPosts) ==
    (Len(allPosts) \div NUMBER_OF_POSTS_PER_PAGE)
    + (IF Len(allPosts) % NUMBER_OF_POSTS_PER_PAGE > 0 THEN 1 ELSE 0)

getNumberOfPagesByTag(allPosts, tagName) ==
    LET posts == PostsWithTag(allPosts, tagName)
    IN  (Len(posts) \div NUMBER_OF_POSTS_PER_PAGE)
        + (IF Len(posts) % NUMBER_OF_POSTS_PER_PAGE > 0 THEN 1 ELSE 0)

RECURSIVE FlatTags(_)
\* allPosts.flatMap((post) => post.Tags)
FlatTags(allPosts) ==
    IF allPosts = <<>> THEN <<>>
    ELSE Head(allPosts).Tags \o FlatTags(Tail(allPosts))

RECURSIVE DedupeByName(_, _)
\* The reduce of getAllTags: a tag is kept when its name was not seen.
DedupeByName(tags, tagNames) ==
    IF tags = <<>> THEN <<>>
    ELSE IF Head(tags).name \in tagNames
         THEN DedupeByName(Tail(tags), tagNames)
         ELSE <<Head(tags)>>
              \o DedupeByName(Tail(tags), tagNames \cup {Head(tags).name})

\* The tag names the posts of this model carry, in the order localeCompare
\* puts them.
Collation == <<"a", "b", "c">>
Rank1(name) == CHOOSE k \in 1..Len(Collation) : Collation[k] = name
\* a.name.localeCompare(b.name)
localeCompare(a, b) ==
    IF Rank1(a) < Rank1(b) THEN -1 ELSE IF Rank1(a) = Rank1(b) THEN 0 ELSE 1

RECURSIVE InsertByName(_, _)
InsertByName(sorted, x) ==
    IF sorted = <<>> THEN <<x>>
    ELSE IF localeCompare(Head(sorted).name, x.name) <= 0
         THEN <<Head(sorted)>> \o InsertByName(Tail(sorted), x)
         ELSE <<x>> \o sorted

RECURSIVE SortByName(_)
\* Array.prototype.sort with the localeCompare comparator (stable).
SortByName(s) ==
    IF s = <<>> THEN <<>>
    ELSE InsertByName(SortByName(SubSeq(s, 1, Len(s) - 1)), s[Len(s)])

getAllTags(allPosts) == SortByName(DedupeByName(FlatTags(allPosts), {}))

\* ---- the content the cache holds
TagPatterns == {"none", "all", "mixed"}
TagsAt(pattern, i) ==
    IF pattern = "all" THEN <<Tag("a")>>
    ELSE IF pattern = "mixed"
         THEN IF i % 3 = 0 THEN <<Tag("c"), Tag("a")>>
              ELSE IF i % 3 = 1 THEN <<Tag("b")>> ELSE <<>>
    ELSE <<>>

\* n published pages, newest first, followed by the title meta record.
ViewPages(n, pattern) ==
    [i \in 1..n |->
        RawPage(i, <<"T">>, <<"s", ToString(i)>>, DateOf("2024-01-01"),
                FALSE, Num(i % 3), TagsAt(pattern, i), <<>>)]
    \o << RawPage(0, <<"Site">>, <<SLUG_META_TITLE>>, Null, TRUE, Null,
                  <<>>, <<>>) >>

PageSizes == {1, 2, 3, 10}
ViewTags == {"", "a", "b", "zz"}
ViewSlugs == {"s1", "s2", "nope"}
ViewPageIds == {1, 2, 99}
ViewSizes == {0, 2, DefaultPageSize}

\* Every language has been fetched once and its entry is in the cache.
ViewsInit ==
    /\ calls = [c \in Callers |-> IdleCall]
    /\ queues = [d \in Domains |-> <<>>]
    /\ holder = [d \in Domains |-> 0]
    /\ \E n \in 0..MaxCount, pattern \in TagPatterns :
          postsCacheByLang =
              [l \in Languages |->
                  IF l = LANGUAGE_KEYS[1]
                  THEN PostsAndMeta(ViewPages(n, pattern))
                  ELSE PostsAndMeta(ViewPages(2, "all"))]
    /\ dbCache = Null
    /\ remoteRev = 0
    /\ zombies = [k \in 1..numberOfRetry |-> 0]
    /\ bailedAttempts = 0
    /\ fetchCount = [k \in CacheKeys |-> IF k \in Languages THEN 1 ELSE 0]
    /\ fetchFail = [k \in CacheKeys |-> 0]
    /\ NUMBER_OF_POSTS_PER_PAGE \in PageSizes
    /\ viewCall = Null
    /\ viewResult = Pending

\* await getAllPosts(lang) with the posts domain free: the core runs at once.
GetAllPosts(lang) ==
    StartCore([IdleCall EXCEPT !.op = GET_ALL_POSTS, !.lang = lang,
                               !.dom = ASYNC_LOCK_POSTS],
              postsCacheByLang, dbCache)

\* The list getAllPosts resolved with (none while it fetches).
AllPostsOf(t) == IF t.pc = "ret" THEN t.ret.val ELSE <<>>

ViewCall(op, lang, tagName, page, size, key) ==
    [op |-> op, lang |-> lang, tagName |-> tagName, page |-> page,
     size |-> size, key |-> key]

\* The accessor returned v after getAllPosts left its call as t.
ViewReturn(call, t, v) ==
    /\ viewCall' = call
    /\ viewResult' = IF t.pc = "ret" THEN Ok(v) ELSE Pending
    /\ fetchCount' = CountFetch(fetchCount, t)
    /\ UNCHANGED <<calls, queues, holder, postsCacheByLang, dbCache,
                   remoteRev, zombies, bailedAttempts, fetchFail,
                   NUMBER_OF_POSTS_PER_PAGE, postVars, blockVars, groupVars,
                   asmVars, dlVars, olVars>>

\* The accessor returned v before it awaited anything.
ViewReturnEarly(call, v) ==
    /\ viewCall' = call
    /\ viewResult' = Ok(v)
    /\ UNCHANGED <<mainVars, NUMBER_OF_POSTS_PER_PAGE, postVars, blockVars,
                   groupVars, asmVars, dlVars, olVars>>

GetPosts(lang, pageSize) ==
    LET t == GetAllPosts(lang)
    IN  ViewReturn(ViewCall(GET_POSTS, lang, "", 0, pageSize, Null), t,
                   getPosts(AllPostsOf(t), pageSize))

\* A getRankedPosts that sorts the array getAllPosts returned, in place.
GetRankedPostsInPlace(lang, pageSize) ==
    LET t == GetAllPosts(lang)
        sorted == SortByRank(AllPostsOf(t))
    IN  /\ viewCall' = ViewCall(GET_RANKED_POSTS, lang, "", 0, pageSize, Null)
        /\ viewResult' = IF t.pc = "ret"
                          THEN Ok(Slice(SelectSeq(sorted, HasRank), 0, pageSize))
                          ELSE Pending
        /\ fetchCount' = CountFetch(fetchCount, t)
        /\ postsCacheByLang' =
              IF t.pc = "ret"
              THEN [postsCacheByLang EXCEPT ![lang].posts = sorted]
              ELSE postsCacheByLang
        /\ UNCHANGED <<calls, queues, holder, dbCache,
                       remoteRev, zombies, bailedAttempts, fetchFail,
                       NUMBER_OF_POSTS_PER_PAGE, postVars, blockVars, groupVars,
                       asmVars, dlVars, olVars>>

GetRankedPostsView(lang, pageSize) ==
    LET t == GetAllPosts(lang)
    IN  ViewReturn(ViewCall(GET_RANKED_POSTS, lang, "", 0, pageSize, Null), t,
                   RankedPosts(AllPostsOf(t), pageSize))

GetPostBySlug(lang, slug) ==
    LET t == GetAllPosts(lang)
    IN  ViewReturn(ViewCall(GET_POST_BY_SLUG, lang, "", 0, 0, slug), t,
                   getPostBySlug(AllPostsOf(t), slug))

GetPostByPageId(lang, pageId) ==
    LET t == GetAllPosts(lang)
    IN  ViewReturn(ViewCall(GET_POST_BY_PAGE_ID, lang, "", 0, 0, pageId), t,
                   getPostByPageId(AllPostsOf(t), pageId))

GetPostsByTag(lang, tagName, pageSize) ==
    LET call == ViewCall(GET_POSTS_BY_TAG, lang, tagName, 0, pageSize, Null)
        t == GetAllPosts(lang)
    IN  IF tagName = "" THEN ViewReturnEarly(call, <<>>)
        ELSE ViewReturn(call, t,
                        getPostsByTag(AllPostsOf(t), tagName, pageSize))

GetPostsByPage(lang, page) ==
    LET call == ViewCall(GET_POSTS_BY_PAGE, lang, "", page, 0, Null)
        t == GetAllPosts(lang)
    IN  IF page < 1 THEN ViewReturnEarly(call, <<>>)
        ELSE ViewReturn(call, t, getPostsByPage(AllPostsOf(t), page))

GetPostsByTagAndPage(lang, tagName, page) ==
    LET call == ViewCall(GET_POSTS_BY_TAG_AND_PAGE, lang, tagName, page, 0,
                         Null)
        t == GetAllPosts(lang)
    IN  IF page < 1 THEN ViewReturnEarly(call, <<>>)
        ELSE ViewReturn(call, t,
                        getPostsByTagAndPage(AllPostsOf(t), tagName, page))

GetNumberOfPages(lang) ==
    LET t == GetAllPosts(lang)
    IN  ViewReturn(ViewCall(GET_NUMBER_OF_PAGES, lang, "", 0, 0, Null), t,
                   getNumberOfPages(AllPostsOf(t)))

GetNumberOfPagesByTag(lang, tagName) ==
    LET t == GetAllPosts(lang)
    IN  ViewReturn(ViewCall(GET_NUMBER_OF_PAGES_BY_TAG, lang, tagName, 0, 0,
                            Null), t,
                   getNumberOfPagesByTag(AllPostsOf(t), tagName))

GetAllTags(lang) ==
    LET t == GetAllPosts(lang)
    IN  ViewReturn(ViewCall(GET_ALL_TAGS, lang, "", 0, 0, Null), t,
                   getAllTags(AllPostsOf(t)))

ViewsNext ==
    \/ \E lang \in Languages, size \in ViewSizes : GetPosts(lang, size)
    \/ \E lang \in Languages, size \in ViewSizes :
          GetRankedPostsView(lang, size)
    \/ \E lang \in Languages, slug \in ViewSlugs : GetPostBySlug(lang, slug)
    \/ \E lang \in Languages, id \in ViewPageIds : GetPostByPageId(lang, id)
    \/ \E lang \in Languages, tagName \in ViewTags, size \in ViewSizes :
          GetPostsByTag(lang, tagName, size)
    \/ \E lang \in Languages, page \in 0..MaxPage : GetPostsByPage(lang, page)
    \/ \E lang \in Languages, tagName \in ViewTags, page \in 0..MaxPage :
          GetPostsByTagAndPage(lang, tagName, page)
    \/ \E lang \in Languages : GetNumberOfPages(lang)
    \/ \E lang \in Languages, tagName \in ViewTags :
          GetNumberOfPagesByTag(lang, tagName)
    \/ \E lang \in Languages : GetAllTags(lang)

InitViews ==
    /\ ViewsInit /\ PostsIdle /\ BlockIdle /\ GroupIdle /\ AssemblerIdle
    /\ DownloadIdle /\ OutlineIdle

SpecViews == InitViews /\ [][ViewsNext]_vars

\* The posts the cache holds for the language of the last call, and those
\* among them that carry the tag of the call.
CachedPosts == postsCacheByLang[viewCall.lang].posts
CachedTagged ==
    LET Carries(q) ==
            \E k \in 1..Len(q.Tags) : q.Tags[k].name = viewCall.tagName
    IN  SelectSeq(CachedPosts, Carries)

\* pages is the ceiling of n / per: the least number of pages of per posts
\* that hold n posts.
IsCeiling(pages, n, per) ==
    /\ pages \in Nat
    /\ pages * per >= n
    /\ (pages > 0 => (pages - 1) * per < n)

\* C13: getNumberOfPages is the ceiling of (cached posts / page size) for
\* every count and every page size >= 1 (25 at 10 gives 3, 20 gives 2, 0
\* gives 0), and getNumberOfPagesByTag is the same function of the number
\* of posts that carry the tag.
C13_PageCountIsCeiling ==
    /\ (viewCall # Null /\ viewCall.op = GET_NUMBER_OF_PAGES) =>
          /\ viewResult.kind = "ok"
          /\ IsCeiling(viewResult.val, Len(CachedPosts),
                       NUMBER_OF_POSTS_PER_PAGE)
          /\ (Len(CachedPosts) = 25 /\ NUMBER_OF_POSTS_PER_PAGE = 10
                => viewResult.val = 3)
          /\ (Len(CachedPosts) = 20 /\ NUMBER_OF_POSTS_PER_PAGE = 10
                => viewResult.val = 2)
          /\ (Len(CachedPosts) = 0 => viewResult.val = 0)
    /\ (viewCall # Null /\ viewCall.op = GET_NUMBER_OF_PAGES_BY_TAG) =>
          /\ viewResult.kind = "ok"
          /\ IsCeiling(viewResult.val, Len(CachedTagged),
                       NUMBER_OF_POSTS_PER_PAGE)

C13_Witness ==
    /\ viewCall # Null
    /\ viewCall.op = GET_NUMBER_OF_PAGES
    /\ Len(CachedPosts) = 25
    /\ NUMBER_OF_POSTS_PER_PAGE = 10
    /\ viewResult = Ok(3)

\* C14: once the entry of a language is in the cache, no call of a derived
\* accessor for that language starts a fetch: the count of fetches (and so
\* of database queries) of the language stays as it is, and the accessor
\* answers from the cached list.
C14_NoRemoteCallAfterBaseFetch ==
    [][/\ \A l \in Languages :
            postsCacheByLang[l] # Undefined => fetchCount'[l] = fetchCount[l]
       /\ viewResult' # Pending]_vars

C14_Witness ==
    /\ viewCall # Null
    /\ viewCall.op = GET_POSTS_BY_TAG_AND_PAGE
    /\ viewCall.page = 2
    /\ viewResult.kind = "ok"
    /\ Len(viewResult.val) = NUMBER_OF_POSTS_PER_PAGE
    /\ fetchCount[viewCall.lang] = 1

\* ------------------------------------------------ cache visibility
RECURSIVE Concat(_)
Concat(seqs) == IF seqs = <<>> THEN <<>> ELSE Head(seqs) \o Concat(Tail(seqs))

\* The entries a complete pagination loop for lang can build: every page of
\* the query, in order, each as some revision of the content had it.
CompleteEntries(lang) ==
    LET n == Len(RemotePages(lang, 0))
    IN  {PostsAndMeta(Concat([k \in 1..n |-> RemotePages(lang, revs[k])[k]]))
            : revs \in [1..n -> 0..MaxEdits]}

\* C15: the cache entry of a language is absent or built from all pages of
\* one complete pagination loop; it stays absent while the populating call
\* is still fetching, and a post list handed to a caller is a complete one.
C15_NoPartialEntry ==
    /\ \A l \in Languages :
          \/ postsCacheByLang[l] = Undefined
          \/ postsCacheByLang[l] \in CompleteEntries(l)
    /\ \A c \in Callers :
          calls[c].pc = "fetch" /\ calls[c].dom = ASYNC_LOCK_POSTS
             => postsCacheByLang[FetchKey(calls[c])] = Undefined
    /\ \A c \in Callers :
          (/\ calls[c].op = GET_ALL_POSTS
           /\ calls[c].outcome.kind = "ok")
             => \E e \in CompleteEntries(calls[c].lang) :
                   calls[c].outcome.val = e.posts

\* The cache holds the posts of both pages of the Japanese query and a
\* caller got them.
C15_Witness ==
    /\ postsCacheByLang["ja"] # Undefined
    /\ Len(postsCacheByLang["ja"].posts) = 2
    /\ \E c \in Callers :
          /\ calls[c].op = GET_ALL_POSTS
          /\ calls[c].lang = "ja"
          /\ calls[c].outcome = Ok(postsCacheByLang["ja"].posts)

\* ================================================== SpecDownload
\* The downloads a post page starts for its image and file blocks and
\* awaits with Promise.all.  One record per file-attached block:
\*   expired      the hosted file's ExpiryTime is not in the future
\*   validUrl     new URL(file.Url) succeeds
\*   contentType  the content-type header of the response
\*   pc           block (the block or its refresh is awaited), url, request
\*                (downloadFile awaits axios), pipeline (the promise
\*                downloadFile returned is that of pipeline(...)), settled
\*   failure      what went wrong, "none" if nothing has
\*   promise      the state of the promise handed to Promise.all
FileBlockTypes == {"image", "file"}
ContentTypes == {"image/jpeg", "image/png"}

\* What the GET of a file can come to: no response (network error or
\* timeout), or a response with a status.
NoResponse == 0
ResponseStatuses == {NoResponse, 200, 204, 404}

\* axios rejects when there is no response or validateStatus (the default:
\* 2xx) refuses the status.
AxiosRejects(status) == status = NoResponse \/ status < 200 \/ status >= 300

NewDownload(type, expired, validUrl, contentType) ==
    [Type |-> type, expired |-> expired, validUrl |-> validUrl,
     contentType |-> contentType, rotated |-> FALSE,
     pc |-> "block", failure |-> "none", promise |-> "pending"]

fileAtacchedBlocks ==
    {NewDownload(type, expired, validUrl, contentType) :
        type \in FileBlockTypes, expired \in BOOLEAN, validUrl \in BOOLEAN,
        contentType \in ContentTypes}

DownloadInit ==
    /\ downloads \in SeqsUpTo(fileAtacchedBlocks, MaxFiles)
    /\ downloads # <<>>
    /\ pageBuild = "pending"

Resolved(d) == [d EXCEPT !.pc = "settled", !.promise = "resolved"]
Rejected(d, failure) ==
    [d EXCEPT !.pc = "settled", !.promise = "rejected", !.failure = failure]

\* The file has not expired: Promise.resolve(block).
BlockFresh(i) ==
    /\ downloads[i].pc = "block"
    /\ ~downloads[i].expired
    /\ downloads' = [downloads EXCEPT ![i].pc = "url"]
    /\ UNCHANGED <<pageBuild, mainVars, postVars, blockVars, groupVars,
                   asmVars, viewVars, olVars>>

\* The file has expired: getBlock(block.Id) returns the block anew.
BlockRefreshed(i) ==
    /\ downloads[i].pc = "block"
    /\ downloads[i].expired
    /\ downloads' = [downloads EXCEPT ![i].pc = "url"]
    /\ UNCHANGED <<pageBuild, mainVars, postVars, blockVars, groupVars,
                   asmVars, viewVars, olVars>>

\* The file has expired and getBlock(block.Id) throws.
BlockRefreshFails(i) ==
    /\ downloads[i].pc = "block"
    /\ downloads[i].expired
    /\ downloads' = [downloads EXCEPT ![i] = Rejected(@, "getBlock")]
    /\ UNCHANGED <<pageBuild, mainVars, postVars, blockVars, groupVars,
                   asmVars, viewVars, olVars>>

\* promise.then((block) => ... new URL(file?.Url ?? '') ...): the URL, or
\* Promise.reject() when it does not parse; then(downloadFile) runs up to
\* its await of axios.
ParseUrl(i) ==
    /\ downloads[i].pc = "url"
    /\ downloads' = [downloads EXCEPT ![i] =
            IF @.validUrl THEN [@ EXCEPT !.pc = "request"]
            ELSE Rejected(@, "url")]
    /\ UNCHANGED <<pageBuild, mainVars, postVars, blockVars, groupVars,
                   asmVars, viewVars, olVars>>

\* downloadFile from the settling of axios(...) on: the request failed
\* (catch: log, resolve); the status is not 200 (log, resolve); else the
\* directory, the write stream and the rotation for a JPEG are set up and
\* pipeline(...) is called: it throws (catch: log, end the stream, resolve)
\* or its promise is returned.
downloadFile(d, status, thrown) ==
    IF AxiosRejects(status)
    THEN [Resolved(d) EXCEPT !.failure =
             IF status = NoResponse THEN "network" ELSE "status"]
    ELSE IF status # 200 THEN [Resolved(d) EXCEPT !.failure = "status"]
    ELSE IF thrown
    THEN [Resolved(d) EXCEPT !.failure = "thrown",
                             !.rotated = d.contentType = "image/jpeg"]
    ELSE [d EXCEPT !.pc = "pipeline",
                   !.rotated = d.contentType = "image/jpeg"]

DownloadResponds(i, status, thrown) ==
    /\ downloads[i].pc = "request"
    /\ downloads' = [downloads EXCEPT ![i] = downloadFile(@, status, thrown)]
    /\ UNCHANGED <<pageBuild, mainVars, postVars, blockVars, groupVars,
                   asmVars, viewVars, olVars>>

\* The pipeline finished: the file is written.
PipelineDone(i) ==
    /\ downloads[i].pc = "pipeline"
    /\ downloads' = [downloads EXCEPT ![i] = Resolved(@)]
    /\ UNCHANGED <<pageBuild, mainVars, postVars, blockVars, groupVars,
                   asmVars, viewVars, olVars>>

\* A stream of the pipeline (the response, the rotation, the EXIF
\* transformer, the write stream) errors: the promise of pipeline rejects.
\* downloadFile has returned that promise without awaiting it, so its catch
\* does not see the rejection: the promise of downloadFile rejects.
PipelineError(i) ==
    /\ downloads[i].pc = "pipeline"
    /\ downloads' = [downloads EXCEPT ![i] = Rejected(@, "stream")]
    /\ UNCHANGED <<pageBuild, mainVars, postVars, blockVars, groupVars,
                   asmVars, viewVars, olVars>>

\* await Promise.all(...) resolves: every promise has.
AllResolved ==
    /\ pageBuild = "pending"
    /\ \A i \in 1..Len(downloads) : downloads[i].promise = "resolved"
    /\ pageBuild' = "done"
    /\ UNCHANGED <<downloads, mainVars, postVars, blockVars, groupVars,
                   asmVars, viewVars, olVars>>

\* await Promise.all(...) throws: one promise has rejected.
OneRejected ==
    /\ pageBuild = "pending"
    /\ \E i \in 1..Len(downloads) : downloads[i].promise = "rejected"
    /\ pageBuild' = "failed"
    /\ UNCHANGED <<downloads, mainVars, postVars, blockVars, groupVars,
                   asmVars, viewVars, olVars>>

DownloadNext ==
    \/ \E i \in 1..Len(downloads) : BlockFresh(i)
    \/ \E i \in 1..Len(downloads) : BlockRefreshed(i)
    \/ \E i \in 1..Len(downloads) : BlockRefreshFails(i)
    \/ \E i \in 1..Len(downloads) : ParseUrl(i)
    \/ \E i \in 1..Len(downloads), status \in ResponseStatuses,
          thrown \in BOOLEAN : DownloadResponds(i, status, thrown)
    \/ \E i \in 1..Len(downloads) : PipelineDone(i)
    \/ \E i \in 1..Len(downloads) : PipelineError(i)
    \/ AllResolved
    \/ OneRejected

InitDownload ==
    /\ MainInit /\ PostsIdle /\ BlockIdle /\ GroupIdle /\ AssemblerIdle
    /\ ViewsIdle /\ DownloadInit /\ OutlineIdle

SpecDownload == InitDownload /\ [][DownloadNext]_vars

DownloadFailures == {"network", "status", "thrown", "stream"}

\* C16: every failure of a download (request error, non-200 response,
\* error while the stream is processed or written) is swallowed:
\* downloadFile's promise does not reject, and the page's await of the
\* downloads fails only for a cause ahead of downloadFile.
C16_DownloadFailuresSwallowed ==
    /\ \A i \in 1..Len(downloads) :
          downloads[i].failure \in DownloadFailures
             => downloads[i].promise # "rejected"
    /\ pageBuild = "failed"
          => \E i \in 1..Len(downloads) :
                downloads[i].failure \in {"getBlock", "url"}

\* ------------------------------------------------------- site meta
\* The designated meta records among the pages of lang at revision rev:
\* valid, meta flag set, the meta-title slug.
IsDesignatedMeta(pageObject) ==
    /\ Len(pageObject.properties.Page.title) > 0
    /\ Len(pageObject.properties.Slug.rich_text) > 0
    /\ pageObject.properties.Meta.checkbox = TRUE
    /\ Join(pageObject.properties.Slug.rich_text) = SLUG_META_TITLE
DesignatedMetas(lang, rev) ==
    SelectSeq(Concat(RemotePages(lang, rev)), IsDesignatedMeta)

\* C17: getSiteMeta(lang) returns the database's Icon and Cover always, and
\* as Title and Description the Title and Excerpt of the language's
\* designated meta post when there is one, the database's own otherwise.
C17_SiteMetaOverride ==
    \A c \in Callers :
        (calls[c].op = GET_SITE_META /\ calls[c].outcome.kind = "ok") =>
            \E dbRev \in 0..MaxEdits, rev \in 0..MaxEdits :
                LET meta == calls[c].outcome.val
                    res == RetrieveDatabaseResponse(dbRev)
                    metas == DesignatedMetas(calls[c].lang, rev)
                IN  /\ DOMAIN meta = {"Title", "Description", "Icon", "Cover"}
                    /\ meta.Icon = [Type |-> "emoji", Emoji |-> res.icon.emoji]
                    /\ meta.Cover = [Type |-> "external",
                                     Url |-> res.cover.external.url]
                    /\ IF metas # <<>>
                       THEN /\ meta.Title =
                                   Join(Head(metas).properties.Page.title)
                            /\ meta.Description =
                                   Join(Head(metas).properties.Excerpt.rich_text)
                       ELSE /\ meta.Title = Join(res.title)
                            /\ meta.Description = Join(res.description)

\* Both cases have happened: a language with the meta post got its title,
\* a language without got the database's.
C17_Witness ==
    \E c1, c2 \in Callers :
        /\ calls[c1].op = GET_SITE_META /\ calls[c1].lang = "ja"
        /\ calls[c1].outcome.kind = "ok"
        /\ calls[c1].outcome.val.Title = "Site"
        /\ calls[c2].op = GET_SITE_META /\ calls[c2].lang = "en"
        /\ calls[c2].outcome.kind = "ok"
        /\ calls[c2].outcome.val.Title = "My Blog"

\* ------------------------------------------------------ pagination
\* C18: a paginated fetch requests page after page, each request with the
\* cursor the page before returned, until has_more is false, and its result
\* is the concatenation of the items of all pages in order.  For the
\* listing of a block's children: while a request is in flight the items
\* collected are exactly those ahead of the request's cursor, and once the
\* loop has ended they are all the children.  For the database query: while
\* the request of page n is in flight the results are pages 1..n-1 in order
\* (each as some revision had it).
C18_PaginationCollectsEveryPageOnce ==
    /\ \A f \in 1..Len(frames) :
          LET fr == frames[f]
              all == RemoteChildren(fr.blockId)
          IN  fr.fn \in ListingFunctions =>
                /\ fr.pc = "request" =>
                      /\ fr.cursor < Len(all) \/ fr.cursor = 0
                      /\ fr.results = SubSeq(all, 1, fr.cursor)
                /\ fr.pc = "listed" => fr.results = all
    /\ \A c \in Callers :
          LET t == calls[c]
              n == IF t.cursor = 0 THEN 1 ELSE t.cursor
          IN  (t.pc = "fetch" /\ t.dom = ASYNC_LOCK_POSTS) =>
                /\ n <= Len(RemotePages(FetchKey(t), 0))
                /\ \E revs \in [1..(n - 1) -> 0..MaxEdits] :
                      t.results =
                          Concat([k \in 1..(n - 1) |->
                                     RemotePages(FetchKey(t), revs[k])[k]])

\* The listing of a page's two children took two requests and has ended
\* with both, in order, after an attempt had failed.
C18_Witness ==
    /\ failures > 0
    /\ \E f \in 1..Len(frames) :
          /\ frames[f].fn = GET_ALL_BLOCKS
          /\ frames[f].blockId = "pageA"
          /\ frames[f].pc = "listed"
          /\ Len(frames[f].results) = 2
          /\ frames[f].results[1].id = "p1"
          /\ frames[f].results[2].id = "t1"

\* -------------------------------------------------------- expansion
\* The kinds the claim gates on the has-children flag, and those it expands
\* unconditionally.
GatedKinds ==
    {"paragraph", "heading_1", "heading_2", "heading_3", "bulleted_list_item",
     "numbered_list_item", "to_do", "quote", "callout", "toggle"}
UngatedKinds == {"table", "column_list", "synced_block"}

\* The activations the loop of f has started for its k-th block.
ExpansionsOf(f, k) ==
    {g \in 1..Len(frames) :
        /\ frames[g].parent = f
        /\ frames[g].blockId = frames[f].blocks[k].Id}

\* C19: in the expansion loop a block of kind paragraph, heading_1..3,
\* bulleted_list_item, numbered_list_item, to_do, quote, callout or toggle
\* has its children listed only when its has-children flag is set, while a
\* table, column_list or synced_block is expanded whatever the flag says.
C19_ExpansionGatedByHasChildren ==
    \A f \in 1..Len(frames) :
        frames[f].fn = GET_ALL_BLOCKS =>
            \A k \in 1..Len(frames[f].blocks) :
                LET block == frames[f].blocks[k] IN
                /\ (block.Type \in GatedKinds /\ ~block.HasChildren)
                      => ExpansionsOf(f, k) = {}
                /\ (block.Type \in UngatedKinds /\ frames[f].i >= k)
                      => ExpansionsOf(f, k) # {}

\* ------------------------------------------------------------ media
MediaKinds == {"video", "image", "file"}

\* The payload of a built media block.
MediaOf(block) ==
    IF block.Type = "video" THEN block.Video
    ELSE IF block.Type = "image" THEN block.Image
    ELSE block.File

\* C20: for each media kind (image, video, file), a raw source of kind
\* 'external' gives a payload with the external URL and no hosted-file
\* part, and a raw source of kind 'file' gives a payload with the hosted
\* file's URL and expiry timestamp and no external URL.
C20_MediaSourceByKind ==
    (builtBlock # Pending /\ rawBlock.type \in MediaKinds) =>
        LET source == rawBlock.payload
            media == MediaOf(builtBlock.val)
        IN  /\ source.type = "external" =>
                /\ "External" \in DOMAIN media
                /\ media.External.Url = source.external.url
                /\ "File" \notin DOMAIN media
            /\ source.type = "file" =>
                /\ "File" \in DOMAIN media
                /\ media.File.Url = source.file.url
                /\ media.File.ExpiryTime = source.file.expiry_time
                /\ "External" \notin DOMAIN media

\* ----------------------------------------------------- link_to_page
\* C21: a raw link_to_page block without a page identifier is built,
\* without raising, into a Block of Type 'unsupported' that carries the raw
\* id and has-children flag and nothing else.
C21_PagelessLinkIsUnsupported ==
    (/\ builtBlock # Pending
     /\ rawBlock.type = "link_to_page"
     /\ "page_id" \notin DOMAIN rawBlock.payload) =>
        /\ builtBlock.kind = "ok"
        /\ builtBlock.val = [Id |-> rawBlock.id,
                             HasChildren |-> rawBlock.has_children,
                             Type |-> "unsupported"]

\* A link to a database, flagged as having children, was built.
C21_Witness ==
    /\ builtBlock # Pending
    /\ rawBlock.type = "link_to_page"
    /\ rawBlock.payload.type = "database_id"
    /\ rawBlock.has_children
    /\ builtBlock.val.Type = "unsupported"

\* =================================================== SpecOutline
\* NotionBlocks.astro invoked for a document and, through
\* NumberedListItems.astro, for the children of its numbered list items.
HeadingTypes == {"heading_1", "heading_2", "heading_3"}

\* A built block of the document; a numbered list item that has children
\* carries them as the assembler left them.
OutlineBlock(type, has_children, children) ==
    LET block == _buildBlock(RawBlock("b", type, has_children,
                                      CHOOSE payload \in RawPayloads(type) : TRUE))
    IN  IF has_children THEN WithChildren(block, children) ELSE block

\* The documents: headings and paragraphs at the top level, and numbered
\* list items whose children are headings, paragraphs and further items.
OutlineLeaves ==
    {OutlineBlock(type, FALSE, <<>>) : type \in HeadingTypes \cup {"paragraph"}}
InnerItems ==
    {OutlineBlock("numbered_list_item", TRUE,
                  <<OutlineBlock("heading_2", FALSE, <<>>)>>)}
NestedBlocks ==
    SeqsUpTo({OutlineBlock("heading_1", FALSE, <<>>),
              OutlineBlock("paragraph", FALSE, <<>>)} \cup InnerItems, 2)
    \ {<<>>}
OutlineItems ==
    {OutlineBlock("numbered_list_item", FALSE, <<>>)}
    \cup {OutlineBlock("numbered_list_item", TRUE, children) :
             children \in NestedBlocks}
OutlineDocs == SeqsUpTo(OutlineLeaves \cup OutlineItems, MaxTop)

\* An outline collected at every level, root or not.
HeadingsOfEveryLevel(blocks, isRoot, rawHeadings) ==
    LET isHeading(block) == block.Type \in HeadingTypes
    IN  SelectSeq(blocks, isHeading)
\* let headings = rawHeadings; if (isRoot) headings = blocks.filter(isHeading)
Headings(blocks, isRoot, rawHeadings) ==
    LET isHeading(block) == block.Type \in HeadingTypes
    IN  IF isRoot THEN SelectSeq(blocks, isHeading) ELSE rawHeadings

\* The frontmatter of NotionBlocks.astro for its props: the grouped blocks
\* and the headings it hands to the components it renders.
NotionBlocks(rawBlocks, isRoot, level, rawHeadings) ==
    LET blocks == GroupBlocks(rawBlocks)
    IN  [rawBlocks |-> rawBlocks, isRoot |-> isRoot, level |-> level,
         rawHeadings |-> rawHeadings, blocks |-> blocks,
         headings |-> Headings(blocks, isRoot, rawHeadings)]

\* Where an invocation was made from: the invocation, the element of its
\* grouped blocks and the item of that list (0, 0, 0 for the page).
MadeFrom(parent, element, item) ==
    [parent |-> parent, element |-> element, item |-> item]

OutlineInit ==
    /\ outlineDoc \in OutlineDocs
    /\ renders = <<>>

\* The page renders the document: blocks, isRoot = true; level and headings
\* take their defaults (1 and []).
RenderRoot ==
    /\ renders = <<>>
    /\ renders' = <<NotionBlocks(outlineDoc, TRUE, 1, <<>>) @@ MadeFrom(0, 0, 0)>>
    /\ UNCHANGED <<outlineDoc, mainVars, postVars, blockVars, groupVars,
                   asmVars, viewVars, dlVars>>

\* NumberedListItems.astro, rendered by invocation r for its element k with
\* r's level and headings, renders item j, which has children:
\* <NotionBlocks blocks={Children ?? []} level={level + 1} headings={headings} />
RenderNested(r, k, j) ==
    /\ renders[r].blocks[k].Type = "numbered_list"
    /\ LET b == renders[r].blocks[k].ListItems[j] IN
        /\ b.Type = "numbered_list_item"
        /\ b.HasChildren
        /\ \A q \in 1..Len(renders) :
              ~(/\ renders[q].parent = r /\ renders[q].element = k
                /\ renders[q].item = j)
        /\ renders' = Append(renders,
              NotionBlocks(IF "Children" \in DOMAIN b.NumberedListItem
                           THEN b.NumberedListItem.Children ELSE <<>>,
                           FALSE, renders[r].level + 1, renders[r].headings)
              @@ MadeFrom(r, k, j))
    /\ UNCHANGED <<outlineDoc, mainVars, postVars, blockVars, groupVars,
                   asmVars, viewVars, dlVars>>

\* The number of items of a List element, 0 for a block.
ListLength(element) == IF IsList(element) THEN Len(element.ListItems) ELSE 0

OutlineNext ==
    \/ RenderRoot
    \/ \E r \in 1..Len(renders) :
          \E k \in 1..Len(renders[r].blocks) :
             \E j \in 1..ListLength(renders[r].blocks[k]) :
                RenderNested(r, k, j)

InitOutline ==
    /\ MainInit /\ PostsIdle /\ BlockIdle /\ GroupIdle /\ AssemblerIdle
    /\ ViewsIdle /\ DownloadIdle /\ OutlineInit

SpecOutline == InitOutline /\ [][OutlineNext]_vars

IsHeadingBlock(block) == block.Type \in HeadingTypes

\* C22: the outline the root invocation hands down is the subsequence of
\* the top-level blocks that are headings of level 1 to 3, in document
\* order; a nested invocation hands down the outline it received, so every
\* invocation at every depth has the root's outline, and a heading that
\* occurs only inside a nested level is not in it.
C22_OutlineIsTopLevelHeadings ==
    \A r \in 1..Len(renders) :
        /\ renders[r].isRoot =>
              renders[r].headings = SelectSeq(renders[r].rawBlocks, IsHeadingBlock)
        /\ ~renders[r].isRoot =>
              /\ renders[r].headings = renders[r].rawHeadings
              /\ renders[r].rawHeadings = renders[renders[r].parent].headings
        /\ renders[r].headings = SelectSeq(outlineDoc, IsHeadingBlock)

\* An invocation two levels down, whose own blocks hold a heading, has the
\* one-heading outline of the top level.
C22_Witness ==
    \E r \in 1..Len(renders) :
        /\ renders[r].level = 3
        /\ \E k \in 1..Len(renders[r].rawBlocks) :
              renders[r].rawBlocks[k].Type = "heading_2"
        /\ Len(renders[r].headings) = 1
        /\ renders[r].headings[1].Type = "heading_1"

\* ------------------------------------------------ failed population
KeyAbsent(k, cache, db) ==
    IF k = ASYNC_LOCK_DB THEN db = Null ELSE cache[k] = Undefined

\* The first cache key the function of call t finds absent (its own key,
\* or for getAllPostsOfAllLanguages the first language not cached), "" if
\* it finds all it reads.
NeededKey(t) ==
    IF t.dom = ASYNC_LOCK_DB
    THEN IF dbCache = Null THEN ASYNC_LOCK_DB ELSE ""
    ELSE IF t.op = GET_ALL_LANGS
    THEN LET missing == {i \in 1..Len(LANGUAGE_KEYS) :
                            postsCacheByLang[LANGUAGE_KEYS[i]] = Undefined}
         IN  IF missing = {} THEN ""
             ELSE LANGUAGE_KEYS[CHOOSE i \in missing : \A j \in missing : i <= j]
    ELSE IF postsCacheByLang[t.lang] = Undefined THEN t.lang ELSE ""

\* A fetch at its very start.
FreshFetch(t, k) ==
    /\ t.pc = "fetch" /\ FetchKey(t) = k
    /\ t.att = 1 /\ t.cursor = 0 /\ t.results = <<>>

\* C23: when the population of a key fails, in the step in which the fetch
\* throws the entry of the key stays absent and no other call is touched;
\* in the step in which the failed call ends, the error is the outcome of
\* that call alone (unless a timer had settled it), the lock leaves the
\* call, and the first live waiter, if there is one, starts a fresh fetch
\* of the key it needs, counted as a new fetch.  No cache ever holds
\* anything but a built entry.
C23_FailedPopulationNotMemoized ==
    [][\A c \in Callers :
        LET t == calls[c] IN
        /\ (t.pc = "fetch" /\ calls'[c].pc = "ret" /\ calls'[c].ret.kind = "err") =>
              /\ KeyAbsent(FetchKey(t), postsCacheByLang', dbCache')
              /\ \A x \in Callers \ {c} : calls'[x] = calls[x]
              /\ holder' = holder
        /\ (t.pc = "ret" /\ t.ret.kind = "err" /\ calls'[c].pc = "done") =>
              /\ calls'[c].outcome = IF t.outcome = Pending THEN t.ret
                                     ELSE t.outcome
              /\ \A x \in Callers \ {c} : calls'[x].outcome = calls[x].outcome
              /\ NeededKey(t) # ""
              /\ KeyAbsent(NeededKey(t), postsCacheByLang', dbCache')
              /\ holder'[t.dom] # c
              /\ holder'[t.dom] # 0 =>
                    LET n == holder'[t.dom] IN
                    /\ calls[n].pc = "wait" /\ calls[n].outcome = Pending
                    /\ NeededKey(calls[n]) = NeededKey(t) =>
                          /\ FreshFetch(calls'[n], NeededKey(calls[n]))
                          /\ fetchCount'[NeededKey(calls[n])] =
                                fetchCount[NeededKey(calls[n])] + 1
      ]_vars

\* A getAllPosts call failed with the remote's error; the call that waited
\* behind it for the same language fetched anew and got its posts.
C23_Witness ==
    \E c1, c2 \in Callers :
        /\ calls[c1].op = GET_ALL_POSTS /\ calls[c2].op = GET_ALL_POSTS
        /\ calls[c1].lang = calls[c2].lang
        /\ calls[c1].pc = "done" /\ calls[c1].outcome.kind = "err"
        /\ calls[c1].outcome.err \in RemoteErrors
        /\ calls[c2].waited /\ GotValue(c2)
        /\ fetchCount[calls[c1].lang] = 2
        /\ fetchFail[calls[c1].lang] = 1

\* --------------------------------------------------------- progress
LocksFree ==
    /\ \A d \in Domains : holder[d] = 0
    /\ \A d \in Domains : queues[d] = <<>>

\* C24: a call that waits for a lock domain, or that is between the two
\* acquisitions of getSiteMeta, holds no domain; and, every remote call
\* returning or failing, from some moment on every call that was issued
\* has completed (a completed call is never issued again) and both locks
\* are free with nothing waiting.
C24_NoDeadlock ==
    /\ [](\A c \in Callers :
            calls[c].pc \in {"wait", "cont"} =>
                \A d \in Domains : holder[d] # c)
    /\ <>[](LocksFree /\ \A c \in Callers : calls[c].pc \in {"idle", "done"})

\* A getSiteMeta call that waited and a getAllPostsOfAllLanguages call have
\* both got their value, and both locks are free.
C24_Witness ==
    /\ LocksFree
    /\ \E c1, c2 \in Callers :
          /\ calls[c1].op = GET_SITE_META /\ GotValue(c1) /\ calls[c1].waited
          /\ calls[c2].op = GET_ALL_LANGS /\ GotValue(c2)

\* ------------------------------------------------------ cached lists
\* C25: the cache entry of a language, once set, is the same after every
\* step: no accessor of the list (getPosts, getRankedPosts, getAllTags,
\* getPostsByTag, getPostsByPage, getPostsByTagAndPage, ...) changes the
\* content or the order of the posts getAllPosts(lang) returns.
C25_CachedListNeverChanges ==
    [][\A lang \in Languages :
          postsCacheByLang[lang] # Undefined =>
              postsCacheByLang'[lang] = postsCacheByLang[lang]]_vars

\* getRankedPosts has returned two posts in the reverse of the order they
\* have in the cached list, and getAllPosts(lang) still resolves with the
\* list in the order of the query.
C25_Witness ==
    /\ viewCall # Null
    /\ viewCall.op = GET_RANKED_POSTS
    /\ viewResult # Pending
    /\ Len(viewResult.val) >= 2
    /\ \E i, j \in 1..Len(CachedPosts) :
          /\ i < j
          /\ CachedPosts[j] = viewResult.val[1]
          /\ CachedPosts[i] = viewResult.val[2]
    /\ AllPostsOf(GetAllPosts(viewCall.lang)) =
          PostsAndMeta(ViewPages(Len(CachedPosts), "mixed")).posts

\* --------------------------------------------------------- tag pages
\* getStaticPaths of posts/tag/[tag]: one path for every tag of getAllTags.
TagPaths(allPosts) ==
    LET allTags == getAllTags(allPosts)
    IN  {[tag |-> allTags[k].name] : k \in 1..Len(allTags)}

\* getStaticPaths of posts/tag/[tag]/page/[page]: for every tag of
\* getAllTags the pages 2 .. getNumberOfPagesByTag.
TagPagePaths(allPosts) ==
    LET allTags == getAllTags(allPosts)
    IN  UNION {{[tag |-> allTags[k].name, page |-> page] :
                    page \in 2..getNumberOfPagesByTag(allPosts, allTags[k].name)}
                 : k \in 1..Len(allTags)}

\* The posts the page of posts/tag/[tag] gets: getPostsByTag(lang, tag,
\* pageSize) with its early return.
PostsOfTag(allPosts, tagName, pageSize) ==
    IF tagName = "" THEN <<>> ELSE getPostsByTag(allPosts, tagName, pageSize)

\* The posts the page of posts/tag/[tag]/page/[page] gets:
\* getPostsByTagAndPage(lang, tag, page) with its early return.
PostsOfTagAndPage(allPosts, tagName, page) ==
    IF page < 1 THEN <<>> ELSE getPostsByTagAndPage(allPosts, tagName, page)

\* C26: for every tag of getAllTags(lang) the number of pages of the tag is
\* at least 1, getPostsByTagAndPage is non-empty on each of the pages 1 to
\* that number and getPostsByTag is non-empty for every page size >= 1; so
\* the posts of every generated tag page have a first element; and a
\* getPostsByTagAndPage or getPostsByTag call for such a tag and page has
\* returned a non-empty list.
C26_TagPagesAreNonEmpty ==
    /\ \A lang \in Languages :
          LET allPosts == postsCacheByLang[lang].posts
              allTags == getAllTags(allPosts)
          IN  /\ \A k \in 1..Len(allTags) :
                    LET tagName == allTags[k].name
                        pages == getNumberOfPagesByTag(allPosts, tagName)
                    IN  /\ pages >= 1
                        /\ \A page \in 1..pages :
                              PostsOfTagAndPage(allPosts, tagName, page) # <<>>
                        /\ \A pageSize \in 1..(Len(allPosts) + 1) :
                              PostsOfTag(allPosts, tagName, pageSize) # <<>>
              /\ \A path \in TagPaths(allPosts) :
                    Len(PostsOfTag(allPosts, path.tag,
                                   NUMBER_OF_POSTS_PER_PAGE)) >= 1
              /\ \A path \in TagPagePaths(allPosts) :
                    Len(PostsOfTagAndPage(allPosts, path.tag, path.page)) >= 1
    /\ (/\ viewCall # Null
        /\ viewResult # Pending
        /\ [tag |-> viewCall.tagName] \in TagPaths(CachedPosts))
       => /\ (/\ viewCall.op = GET_POSTS_BY_TAG_AND_PAGE
              /\ viewCall.page >= 1
              /\ viewCall.page <=
                    getNumberOfPagesByTag(CachedPosts, viewCall.tagName))
             => viewResult.val # <<>>
          /\ (viewCall.op = GET_POSTS_BY_TAG /\ viewCall.size >= 1)
             => viewResult.val # <<>>
          /\ viewCall.op = GET_NUMBER_OF_PAGES_BY_TAG => viewResult.val >= 1

\* getPostsByTagAndPage has returned the last of several pages of a tag of
\* getAllTags, and the page is not full.
C26_Witness ==
    /\ viewCall # Null
    /\ viewCall.op = GET_POSTS_BY_TAG_AND_PAGE
    /\ [tag |-> viewCall.tagName, page |-> viewCall.page]
          \in TagPagePaths(CachedPosts)
    /\ viewCall.page = getNumberOfPagesByTag(CachedPosts, viewCall.tagName)
    /\ viewResult # Pending
    /\ Len(viewResult.val) >= 1
    /\ Len(viewResult.val) < NUMBER_OF_POSTS_PER_PAGE

\* ------------------------------------------------------------- pages
\* getPostsByPage(lang, page) with its early return.
PostsOfPage(allPosts, page) ==
    IF page < 1 THEN <<>> ELSE getPostsByPage(allPosts, page)

\* getStaticPaths of posts/page/[page]: the pages 2 .. getNumberOfPages.
PagePaths(allPosts) == 2..getNumberOfPages(allPosts)

\* C27: the pages 1 .. getNumberOfPages(lang) of getPostsByPage, one after
\* the other, are the list of getAllPosts(lang) in its order; each of them
\* has at least one and at most NUMBER_OF_POSTS_PER_PAGE posts; a page
\* below 1 or above the number of pages is empty; and a getPostsByPage call
\* has returned exactly the posts of its page.
C27_PagesPartitionThePosts ==
    /\ \A lang \in Languages :
          LET allPosts == postsCacheByLang[lang].posts
              pages == getNumberOfPages(allPosts)
          IN  /\ Concat([page \in 1..pages |-> PostsOfPage(allPosts, page)])
                    = allPosts
              /\ \A page \in 1..pages :
                    /\ Len(PostsOfPage(allPosts, page)) >= 1
                    /\ Len(PostsOfPage(allPosts, page))
                          <= NUMBER_OF_POSTS_PER_PAGE
              /\ \A page \in PagePaths(allPosts) : page \in 1..pages
              /\ \A page \in (-MaxPage)..0 :
                    PostsOfPage(allPosts, page) = <<>>
              /\ \A page \in (pages + 1)..(pages + MaxPage) :
                    PostsOfPage(allPosts, page) = <<>>
    /\ (viewCall # Null /\ viewCall.op = GET_POSTS_BY_PAGE
                        /\ viewResult # Pending)
       => LET pages == getNumberOfPages(CachedPosts)
              first == (viewCall.page - 1) * NUMBER_OF_POSTS_PER_PAGE + 1
          IN  IF viewCall.page < 1 \/ viewCall.page > pages
              THEN viewResult.val = <<>>
              ELSE /\ viewResult.val # <<>>
                   /\ \A k \in 1..Len(viewResult.val) :
                         viewResult.val[k] = CachedPosts[first + k - 1]
                   /\ \/ Len(viewResult.val) = NUMBER_OF_POSTS_PER_PAGE
                      \/ /\ viewCall.page = pages
                         /\ first + Len(viewResult.val) - 1 = Len(CachedPosts)

\* getPostsByPage has returned the last of several pages, partly filled.
C27_Witness ==
    /\ viewCall # Null
    /\ viewCall.op = GET_POSTS_BY_PAGE
    /\ viewCall.page \in PagePaths(CachedPosts)
    /\ viewCall.page = getNumberOfPages(CachedPosts)
    /\ viewResult # Pending
    /\ Len(viewResult.val) >= 1
    /\ Len(viewResult.val) < NUMBER_OF_POSTS_PER_PAGE
    /\ viewResult.val[Len(viewResult.val)] = CachedPosts[Len(CachedPosts)]

\* ------------------------------------------------------ termination
RECURSIVE Ancestors(_, _)
\* The activations that await, directly or not, the activation f.
Ancestors(frs, f) ==
    IF frs[f].parent = 0 THEN {}
    ELSE {frs[f].parent} \cup Ancestors(frs, frs[f].parent)

\* C28: getAllBlocksByBlockId terminates on every finite document, those
\* with a synced block synced from one of its ancestors included, when every
\* remote call returns or fails.  What the remote lists for a block id is
\* fixed, so the recursion ends on every run exactly when no activation of
\* getAllBlocksByBlockId lists a block id that an activation awaiting it is
\* listing already: an activation that does so is followed, when its calls
\* return, by the same activations again, without end.
C28_AssemblerTerminates ==
    \A f \in 1..Len(frames) :
        frames[f].fn = GET_ALL_BLOCKS =>
            \A a \in Ancestors(frames, f) :
                ~(frames[a].fn = GET_ALL_BLOCKS
                  /\ frames[a].blockId = frames[f].blockId)

====
